---- MODULE Spec2Model ----
(***************************************************************************)
(* Rolling-window feature engineering, weak-supervision label aggregation, *)
(* chunked loading and request rate limiting of the ad-fraud ML pipeline.  *)
(*                                                                         *)
(*   ML/scripts/feature_engineering.py                                     *)
(*   ML/scripts/lib/loader.py                                              *)
(*   ML/src/ml_pipelines/weak_supervision/label_functions.py               *)
(*   ML/src/ml_pipelines/weak_supervision/label_model.py                   *)
(*   ML/src/ml_pipelines/weak_supervision/metrics.py                       *)
(*   services/fraud-inference/main.py                                      *)
(*                                                                         *)
(* Time is counted in whole hours since the Unix epoch, so the epoch       *)
(* sentinel pd.Timestamp(0, tz="UTC") is 0 and the three rolling windows   *)
(* are 1, 24 and 168.                                                      *)
(*                                                                         *)
(* Thirteen specifications share the module:                               *)
(*   SpecEngine    one pass of _compute_rolling_counts, one loop iteration *)
(*                 per step;                                               *)
(*   Spec          run(): batch and streaming feature assembly;            *)
(*   SpecLabel     ProbabilisticLabelModel.predict: apply_label_functions  *)
(*                 cell by cell, then _aggregate;                          *)
(*   SpecMetrics   compute_label_metrics on a label matrix;                *)
(*   SpecScenario  the five-record weak-supervision scenario;              *)
(*   SpecStream    the chunk iterators of the loader and the thread pool   *)
(*                 that processes their chunks;                            *)
(*   SpecLimiter   RateLimiter.hit called from concurrent requests; time   *)
(*                 there is counted in seconds;                            *)
(*   SpecEntity    engineer_features on a frame with every entity column;  *)
(*   SpecAssembly  engineer_features on any subset of the optional         *)
(*                 columns, with and without history;                      *)
(*   SpecBurst     _burstiness on a list of timestamps;                    *)
(*   SpecCtit      the CTIT flags of engineer_features;                    *)
(*   SpecChunkRows the chunk iterators with the chunk size chosen from     *)
(*                 CHUNK_ROWS and the file size;                           *)
(*   SpecNightly   nightly_pipeline.run_pipeline over successive nights.   *)
(***************************************************************************)
EXTENDS Integers, Sequences, FiniteSets, TLC

VARIABLES
    \* ---- _compute_rolling_counts ----
    window,     \* the window argument (hours)
    buffers,    \* buffers: key -> deque of <<ts, weight>>
    fed,        \* rows of zip(times, keys) consumed so far, with their weight
    result,     \* result[idx] for the rows consumed so far
    \* ---- weak supervision: ProbabilisticLabelModel.predict ----
    label_functions,  \* the label functions handed to the constructor
    n_records,        \* number of records handed to predict
    pc_label,         \* "new", "apply", "aggregate", "done", "config_error", "error"
    index,            \* enumerate() index of the record being labelled (from 0)
    lf_pos,           \* position in label_functions of the next function to call
    matrix,           \* matrix: name -> list of labels, while apply runs
    n_calls,          \* number of calls lf.func(record) made so far
    last_call,        \* the latest such call and the value it returned, or NoCall
    label_matrix,     \* the matrix returned by apply_label_functions, or NoFrame
    predictions,      \* the frame returned by _aggregate, or NoFrame
    error,            \* the LabelFunctionError raised, or NoError
    metrics,          \* the LabelMetrics compute_label_metrics returned, or NoFrame
    records,          \* the records handed to predict, where the callables read them
    previous,         \* the WeakLabelResult of the preceding predict call, or NoFrame
    \* ---- feature assembly: run() and engineer_features() ----
    input,        \* the rows of the file at args.input, in file order
    args,         \* the parsed command line: stream, sample_size
    columns,      \* the column names of the file at args.input
    pc,           \* "run", "done", or "failed" when run() ended in an exception
    failure,      \* the exception that ended run(), or NoError
    iterator,     \* rows the chunk iterator has not yielded yet
    df,           \* the frame handed to the latest engineer_features call
    timestamps,   \* its timestamps series, in the order the rows are visited
    feats,        \* the table the latest engineer_features call returned
    meta,         \* the metadata the latest engineer_features call returned
    written,      \* the rows written to features_path so far
    total_rows,   \* total_rows of the streaming writer
    metadata,     \* the manifest written to feature_manifest.json, or NoFrame
    \* ---- streaming loaders (lib/loader.py) feeding a thread pool ----
    loader,       \* the call: format, chunk size, max_workers
    file,         \* the lines (CSV, JSONL) or rows (Parquet) of the file
    pos,          \* how many of them the iterator has consumed
    jsonl_rows,   \* iter_jsonl: the rows accumulated for the next chunk
    futures,      \* the futures of pool.submit, in submission order
    par_out,      \* the frame _parallel_process returned, or NoFrame
    \* ---- RateLimiter (services/*/main.py) ----
    limiter,      \* max_requests and window_seconds
    clock,        \* what time.time() returns at this moment
    hits,         \* _hits: key -> deque of timestamps
    inflight,     \* the hit() calls between time.time() and the lock
    responses,    \* the calls that returned or raised, in the order of the lock
    \* ---- engineer_features(): the entity columns ----
    entity_df,       \* the rows of df
    entity_present,  \* which of the optional entity columns df has
    entity_history,  \* the include_history argument
    entity_output,   \* the output frame: column name -> values, or NoFrame
    \* ---- _burstiness() ----
    burst_timestamps,  \* the timestamps argument, in the order given
    burst_value, \* the value returned, or NoFrame
    \* ---- engineer_features(): the CTIT heuristics ----
    ctit_df,  \* the ctit_seconds column of df, if df has one
    ctit_output, \* the ctit columns added to output, or NoFrame
    \* ---- nightly_pipeline.py: run_pipeline() night after night ----
    fingerprint_file,  \* the fingerprint stored in --fingerprint-file, or NoFingerprint
    dataset,  \* the fingerprint of --fingerprint-source as it is now
    nightly,  \* the run in progress or just ended: arguments, steps left, outcome
    completed,  \* per dataset fingerprint, the training steps that have succeeded on it
    flagged  \* every run so far was given --skip-if-unchanged

engineVars == <<window, buffers, fed, result>>

labelVars == <<label_functions, n_records, pc_label, index, lf_pos, matrix,
               n_calls, last_call, label_matrix, predictions, error, metrics,
               records, previous>>

runVars == <<input, args, pc, iterator, df, timestamps, feats, meta,
             written, total_rows, metadata, columns, failure>>

streamVars == <<loader, file, pos, jsonl_rows, futures, par_out>>

limiterVars == <<limiter, clock, hits, inflight, responses>>

entityVars == <<entity_df, entity_present, entity_history, entity_output>>

burstVars == <<burst_timestamps, burst_value>>

ctitVars == <<ctit_df, ctit_output>>

nightlyVars == <<fingerprint_file, dataset, nightly, completed, flagged>>

\* The variables added for single functions and scripts.
extVars == <<entityVars, burstVars, ctitVars, nightlyVars>>

coreVars == <<window, buffers, fed, result,
              label_functions, n_records, pc_label, index, lf_pos, matrix,
              n_calls, last_call, label_matrix, predictions, error, metrics,
              records, previous,
              input, args, pc, iterator, df, timestamps, feats, meta,
              written, total_rows, metadata, columns, failure,
              loader, file, pos, jsonl_rows, futures, par_out,
              limiter, clock, hits, inflight, responses>>

\* The variables the engine, the label model and run() never touch.
auxVars == <<streamVars, limiterVars, extVars>>

vars == <<window, buffers, fed, result,
          label_functions, n_records, pc_label, index, lf_pos, matrix,
          n_calls, last_call, label_matrix, predictions, error, metrics,
          records, previous,
          input, args, pc, iterator, df, timestamps, feats, meta,
          written, total_rows, metadata, columns, failure,
          loader, file, pos, jsonl_rows, futures, par_out,
          limiter, clock, hits, inflight, responses,
          entity_df, entity_present, entity_history, entity_output,
          burst_timestamps, burst_value,
          ctit_df, ctit_output,
          fingerprint_file, dataset, nightly, completed, flagged>>

----------------------------------------------------------------------------
(* Bounds *)

MaxEvents == 3

MaxLabelFunctions == 2

MaxRecords == 2

MaxRows == 2

MaxLines == 3

MaxWorkers == 2

MaxHits == 4

MaxClock == 4

----------------------------------------------------------------------------
(* Generic helpers *)

RECURSIVE SumSeq(_)
SumSeq(s) == IF s = <<>> THEN 0 ELSE Head(s) + SumSeq(Tail(s))

Range(s) == {s[i] : i \in 1..Len(s)}

NonDecreasing(s) == \A i \in 1..(Len(s) - 1) : s[i] <= s[i + 1]

----------------------------------------------------------------------------
(* Rolling window engine: feature_engineering.py                           *)

\* Mutation of ROLLING_WINDOWS: the lengths of "1h" and "24h" are exchanged.
ROLLING_WINDOWS_Exchanged == [w1h |-> 24, w24h |-> 1, w7d |-> 168]

ROLLING_WINDOWS == [w1h |-> 1, w24h |-> 24, w7d |-> 168]

WindowNames == DOMAIN ROLLING_WINDOWS

NaT == -1

KeyNone == "<None>"

\* Timestamps the engine is fed with: hours chosen so that, for every window
\* length, some pair of them lies exactly one window apart, some pair further
\* apart and some pair closer.
EngineTimes == {0, 1, 2, 25, 170}

EngineKeys == {"a", "b"}

\* weights.iloc[idx] is a 0/1 label; the unweighted call uses 1.0 throughout.
EngineWeights == {0, 1}

\* Mutation of EvictOld: evicts the entry that lies exactly on the cutoff too.
RECURSIVE EvictOld_Inclusive(_, _)
EvictOld_Inclusive(queue, cutoff) ==
    IF queue # <<>> /\ queue[1][1] <= cutoff
    THEN EvictOld_Inclusive(Tail(queue), cutoff)
    ELSE queue

\* Mutation of EvictOld: "if" in place of "while", at most one entry leaves.
EvictOld_Once(queue, cutoff) ==
    IF queue # <<>> /\ queue[1][1] < cutoff THEN Tail(queue) ELSE queue

\* while queue and queue[0][0] < cutoff: queue.popleft()
RECURSIVE EvictOld(_, _)
EvictOld(queue, cutoff) ==
    IF queue # <<>> /\ queue[1][1] < cutoff
    THEN EvictOld(Tail(queue), cutoff)
    ELSE queue

\* sum(item[1] for item in queue)
QueueSum(queue) == SumSeq([i \in 1..Len(queue) |-> queue[i][2]])

\* Mutation of ObserveStep: one queue shared by all keys in place of
\* buffers[key], as if the defaultdict were a single deque.
ObserveStep_SharedQueue(bufs, ts, key, w, win) ==
    IF ts = NaT \/ key = KeyNone
    THEN [buffers |-> bufs, value |-> 0]
    ELSE LET appended == Append(bufs[key], <<ts, w>>)
             cutoff == ts - win
             queue == EvictOld(appended, cutoff)
         IN [buffers |-> [k \in DOMAIN bufs |-> queue], value |-> QueueSum(queue)]

\* One iteration of the loop of _compute_rolling_counts on the row (ts, key)
\* with weight w: the buffers afterwards and the value stored in result[idx].
ObserveStep(bufs, ts, key, w, win) ==
    IF ts = NaT \/ key = KeyNone
    THEN [buffers |-> bufs, value |-> 0]
    ELSE LET appended == Append(bufs[key], <<ts, w>>)
             cutoff == ts - win
             queue == EvictOld(appended, cutoff)
         IN [buffers |-> [bufs EXCEPT ![key] = queue], value |-> QueueSum(queue)]

LabelIdle ==
    /\ label_functions = <<>>
    /\ n_records = 0
    /\ pc_label = "idle"
    /\ index = 0
    /\ lf_pos = 1
    /\ matrix = <<>>
    /\ n_calls = 0
    /\ last_call = <<>>
    /\ label_matrix = <<>>
    /\ predictions = <<>>
    /\ error = <<>>
    /\ metrics = <<>>
    /\ records = <<>>
    /\ previous = <<>>

RunIdle ==
    /\ input = <<>>
    /\ args = <<>>
    /\ pc = "idle"
    /\ iterator = <<>>
    /\ df = <<>>
    /\ timestamps = <<>>
    /\ feats = <<>>
    /\ meta = <<>>
    /\ written = <<>>
    /\ total_rows = 0
    /\ metadata = <<>>
    /\ columns = {}
    /\ failure = <<>>

StreamIdle ==
    /\ loader = <<>>
    /\ file = <<>>
    /\ pos = 0
    /\ jsonl_rows = <<>>
    /\ futures = <<>>
    /\ par_out = <<>>

LimiterIdle ==
    /\ limiter = <<>>
    /\ clock = 0
    /\ hits = <<>>
    /\ inflight = <<>>
    /\ responses = <<>>

EntityIdle ==
    /\ entity_df = <<>>
    /\ entity_present = {}
    /\ entity_history = FALSE
    /\ entity_output = <<>>

BurstIdle ==
    /\ burst_timestamps = <<>>
    /\ burst_value = <<>>

CtitIdle ==
    /\ ctit_df = <<>>
    /\ ctit_output = <<>>

NightlyIdle ==
    /\ fingerprint_file = 0
    /\ dataset = 0
    /\ nightly = <<>>
    /\ completed = <<>>
    /\ flagged = FALSE

ExtIdle == EntityIdle /\ BurstIdle /\ CtitIdle /\ NightlyIdle

AuxIdle == StreamIdle /\ LimiterIdle /\ ExtIdle

EngineIdle ==
    /\ window = 0
    /\ buffers = <<>>
    /\ fed = <<>>
    /\ result = <<>>

EngineInit ==
    /\ AuxIdle
    /\ LabelIdle
    /\ RunIdle
    /\ window \in Range([i \in 1..3 |-> ROLLING_WINDOWS[<<"w1h", "w24h", "w7d">>[i]]])
    /\ buffers = [k \in EngineKeys |-> <<>>]
    /\ fed = <<>>
    /\ result = <<>>

Observe ==
    /\ Len(fed) < MaxEvents
    /\ \E ts \in EngineTimes, key \in EngineKeys, w \in EngineWeights :
          LET step == ObserveStep(buffers, ts, key, w, window)
          IN /\ buffers' = step.buffers
             /\ result' = Append(result, step.value)
             /\ fed' = Append(fed, [ts |-> ts, key |-> key, weight |-> w])
    /\ UNCHANGED window
    /\ UNCHANGED labelVars
    /\ UNCHANGED runVars
    /\ UNCHANGED auxVars

EngineNext == Observe

SpecEngine == EngineInit /\ [][EngineNext]_vars

----------------------------------------------------------------------------
(* Claims on the rolling window engine (SpecEngine)                        *)

FedTimes(f) == [i \in 1..Len(f) |-> f[i].ts]

\* Indexes of the rows presented up to and including row i that have the key
\* of row i and a timestamp >= ts(i) - window.
InWindow(i) ==
    {j \in 1..i : fed[j].key = fed[i].key /\ fed[j].ts >= fed[i].ts - window}

RECURSIVE WeightOf(_)
WeightOf(S) ==
    IF S = {} THEN 0
    ELSE LET j == CHOOSE x \in S : TRUE IN fed[j].weight + WeightOf(S \ {j})

\* C1: when the rows are presented in non-decreasing timestamp order, the
\* value returned for each row equals the summed weight of the rows of the
\* same key presented so far (itself included) whose timestamp is
\* >= T - W; a row exactly at T - W is counted.
C1_RollingSumExact ==
    NonDecreasing(FedTimes(fed)) =>
        \A i \in 1..Len(fed) : result[i] = WeightOf(InWindow(i))

\* C1 witness: a sorted feed in which the last row finds one earlier row of
\* its key exactly at T - W (counted) and one before T - W (evicted).
C1_Witness ==
    /\ NonDecreasing(FedTimes(fed))
    /\ Len(fed) = 3
    /\ \A j \in 1..3 : fed[j].key = fed[3].key /\ fed[j].weight = 1
    /\ fed[2].ts = fed[3].ts - window
    /\ fed[1].ts < fed[3].ts - window
    /\ result[3] = 2

\* C2, state part: after an observe at time T (sorted feed) the observed
\* key's queue holds no entry older than T - W, the returned sum is the sum
\* of exactly the resident entries, and the queue is no longer than the
\* number of the key's rows inside the window.
C2_QueueWithinWindow ==
    (NonDecreasing(FedTimes(fed)) /\ fed # <<>>) =>
        LET last == fed[Len(fed)]
            queue == buffers[last.key]
        IN /\ \A i \in 1..Len(queue) : queue[i][1] >= last.ts - window
           /\ result[Len(fed)] = QueueSum(queue)
           /\ Len(queue) <= Cardinality(InWindow(Len(fed)))

\* C2, step part: an observe only drops entries from the front of the
\* observed key's queue and adds the new entry at the back; no entry that has
\* left a queue is ever put back, and the other queues are untouched.
C2_NoReentry ==
    (NonDecreasing(FedTimes(fed')) /\ Len(fed') = Len(fed) + 1) =>
        LET new == fed'[Len(fed')]
            grown == Append(buffers[new.key], <<new.ts, new.weight>>)
        IN /\ \E n \in 0..Len(buffers[new.key]) :
                  buffers'[new.key] = SubSeq(grown, n + 1, Len(grown))
           /\ \A k \in EngineKeys \ {new.key} : buffers'[k] = buffers[k]

\* C2: after every observe at time T on a sorted feed, the key's queue holds
\* no entry with timestamp < T - W, the returned sum includes none, evicted
\* entries never re-enter, and the resident entries never outnumber the rows
\* that fall inside the window.
C2_EvictionBound == [](C2_QueueWithinWindow) /\ [][C2_NoReentry]_vars

\* C2 witness: three rows of one key on a sorted feed, the third so late that
\* both earlier entries were evicted at once.
C2_Witness ==
    /\ NonDecreasing(FedTimes(fed))
    /\ Len(fed) = 3
    /\ fed[1].key = fed[3].key /\ fed[2].key = fed[3].key
    /\ fed[2].ts < fed[3].ts - window
    /\ Len(buffers[fed[3].key]) = 1

----------------------------------------------------------------------------
(* Weak supervision: label_functions.py, label_model.py                    *)

\* ABSTAIN = None
ABSTAIN == -1

\* float("nan"), which LabelFunction.__call__ turns into None
NaN == -2

POSITIVE_LABEL == 1

NEGATIVE_LABEL == 0

\* LabelFunction.labels: Sequence[int] = (0, 1)
DEFAULT_LABELS == {0, 1}

\* What a wrapped callable may hand back: None, nan, the two labels, and a
\* value outside the labels.
RawValues == {ABSTAIN, NaN, 0, 1, 2}

\* LabelFunction.weight is a float that nothing validates, so a negative one is
\* accepted like any other (and -1 with 1 makes a zero total); tenths would do as
\* well as units, the aggregation only adds and compares.
Weights == {-1, 1, 2}

LabelFunctionNames == <<"lf1", "lf2", "lf3", "lf4">>

NoFrame == [returned |-> FALSE]

NoError == [raised |-> FALSE]

NoCall == [made |-> FALSE]

Abs(x) == IF x < 0 THEN -x ELSE x

\* Mutation of LabelFunction_call: an unsupported value is swallowed as an
\* abstention instead of raising.
LabelFunction_call_Swallow(lf, value) ==
    IF value = ABSTAIN \/ value = NaN \/ value \notin lf.labels
    THEN [raised |-> FALSE, value |-> ABSTAIN]
    ELSE [raised |-> FALSE, value |-> value]

\* LabelFunction.__call__ on the value the wrapped callable returned.
LabelFunction_call(lf, value) ==
    IF value = ABSTAIN \/ value = NaN
    THEN [raised |-> FALSE, value |-> ABSTAIN]
    ELSE IF value \notin lf.labels
         THEN [raised |-> TRUE, value |-> value]
         ELSE [raised |-> FALSE, value |-> value]

\* Row i (from 1) of a label matrix, as iterrows() yields it.
MatrixRow(m, i) == [name \in DOMAIN m |-> m[name][i]]

\* Mutation of AggregateRow: a tie goes to the negative label.
AggregateRow_TieNegative(lfs, row) ==
    LET pos_weight == SumSeq([i \in 1..Len(lfs) |->
                         IF row[lfs[i].name] = POSITIVE_LABEL THEN lfs[i].weight ELSE 0])
        neg_weight == SumSeq([i \in 1..Len(lfs) |->
                         IF row[lfs[i].name] = NEGATIVE_LABEL THEN lfs[i].weight ELSE 0])
        total_weight == pos_weight + neg_weight
        score == pos_weight - neg_weight
    IN [y_weak |-> IF total_weight = 0 THEN ABSTAIN
                   ELSE IF score > 0 THEN POSITIVE_LABEL ELSE NEGATIVE_LABEL,
        confidence |-> IF total_weight = 0 THEN [num |-> 0, den |-> 1]
                       ELSE [num |-> Abs(score), den |-> total_weight],
        positive_weight |-> pos_weight,
        negative_weight |-> neg_weight,
        vote_count |-> SumSeq([i \in 1..Len(lfs) |->
                         IF row[lfs[i].name] = ABSTAIN THEN 0 ELSE 1])]

\* The body of the loop of _aggregate for one row of the label matrix.
\* confidence is the exact quotient num / den.
AggregateRow(lfs, row) ==
    LET pos_weight == SumSeq([i \in 1..Len(lfs) |->
                         IF row[lfs[i].name] = POSITIVE_LABEL THEN lfs[i].weight ELSE 0])
        neg_weight == SumSeq([i \in 1..Len(lfs) |->
                         IF row[lfs[i].name] = NEGATIVE_LABEL THEN lfs[i].weight ELSE 0])
        votes == SumSeq([i \in 1..Len(lfs) |->
                         IF row[lfs[i].name] = ABSTAIN THEN 0 ELSE 1])
        total_weight == pos_weight + neg_weight
        score == pos_weight - neg_weight
    IN [y_weak |-> IF total_weight = 0 THEN ABSTAIN
                   ELSE IF score > 0 THEN POSITIVE_LABEL
                   ELSE IF score < 0 THEN NEGATIVE_LABEL
                   ELSE ABSTAIN,
        confidence |-> IF total_weight = 0 THEN [num |-> 0, den |-> 1]
                       ELSE [num |-> Abs(score), den |-> total_weight],
        positive_weight |-> pos_weight,
        negative_weight |-> neg_weight,
        vote_count |-> votes]

\* ProbabilisticLabelModel._aggregate
aggregate(lfs, m, n) == [i \in 1..n |-> AggregateRow(lfs, MatrixRow(m, i))]

LabelFunctionLists ==
    UNION {{[i \in 1..n |-> [name |-> LabelFunctionNames[i],
                             weight |-> w[i],
                             labels |-> DEFAULT_LABELS]] : w \in [1..n -> Weights]}
           : n \in 0..MaxLabelFunctions}

LabelInit ==
    /\ AuxIdle
    /\ EngineIdle
    /\ RunIdle
    /\ label_functions \in LabelFunctionLists
    /\ n_records \in 0..MaxRecords
    /\ pc_label = "new"
    /\ index = 0
    /\ lf_pos = 1
    /\ matrix = <<>>
    /\ n_calls = 0
    /\ last_call = NoCall
    /\ label_matrix = NoFrame
    /\ predictions = NoFrame
    /\ error = NoError
    /\ metrics = NoFrame
    /\ records = <<>>
    /\ previous = NoFrame

\* Mutation of RejectsFunctions: the constructor accepts any list.
RejectsFunctions_Never(lfs) == FALSE

\* if not label_functions: raise ValueError(...)
RejectsFunctions(lfs) == lfs = <<>>

\* Mutation of FreshMatrix: the lists of an earlier call are kept and
\* appended to.
FreshMatrix_Kept(lfs, old) ==
    IF old = <<>> THEN [name \in {lfs[i].name : i \in 1..Len(lfs)} |-> <<>>] ELSE old

\* matrix = {lf.name: [] for lf in label_functions}: a local of the call,
\* whatever an earlier call left behind.
FreshMatrix(lfs, old) == [name \in {lfs[i].name : i \in 1..Len(lfs)} |-> <<>>]

\* One iteration of the inner loop of apply_label_functions, on the value the
\* wrapped callable returned for the current record.
ApplyCell(value) ==
    LET lf == label_functions[lf_pos]
        out == LabelFunction_call(lf, value)
    IN /\ n_calls' = n_calls + 1
       /\ last_call' = [made |-> TRUE, name |-> lf.name,
                        record_index |-> index, value |-> value]
       /\ IF out.raised
          THEN /\ pc_label' = "error"
               /\ error' = [raised |-> TRUE, name |-> lf.name,
                            record_index |-> index]
               /\ matrix' = <<>>
               /\ UNCHANGED <<index, lf_pos>>
          ELSE /\ matrix' = [matrix EXCEPT ![lf.name] = Append(@, out.value)]
               /\ IF lf_pos = Len(label_functions)
                  THEN index' = index + 1 /\ lf_pos' = 1
                  ELSE index' = index /\ lf_pos' = lf_pos + 1
               /\ UNCHANGED <<pc_label, error>>

\* ProbabilisticLabelModel.__init__ followed by the entry of predict and of
\* apply_label_functions up to the first loop iteration.
ProbabilisticLabelModel_init ==
    /\ pc_label = "new"
    /\ IF RejectsFunctions(label_functions)
       THEN /\ pc_label' = "config_error"
            /\ UNCHANGED matrix
       ELSE /\ pc_label' = "apply"
            /\ matrix' = FreshMatrix(label_functions, matrix)
    /\ UNCHANGED <<label_functions, n_records, index, lf_pos, n_calls, last_call,
                   label_matrix, predictions, error, metrics, records, previous>>
    /\ UNCHANGED engineVars
    /\ UNCHANGED runVars
    /\ UNCHANGED auxVars

\* One iteration of the inner loop of apply_label_functions: lf(record),
\* appended to the matrix or re-raised as LabelFunctionError(lf.name, index).
apply_label_functions ==
    /\ pc_label = "apply"
    /\ index < n_records
    /\ \E value \in RawValues : ApplyCell(value)
    /\ UNCHANGED <<label_functions, n_records, label_matrix, predictions, metrics,
                   records, previous>>
    /\ UNCHANGED engineVars
    /\ UNCHANGED runVars
    /\ UNCHANGED auxVars

\* return pd.DataFrame(matrix)
apply_return ==
    /\ pc_label = "apply"
    /\ index = n_records
    /\ label_matrix' = [returned |-> TRUE, columns |-> matrix]
    /\ pc_label' = "aggregate"
    /\ UNCHANGED <<label_functions, n_records, index, lf_pos, matrix, n_calls,
                   last_call, predictions, error, metrics, records, previous>>
    /\ UNCHANGED engineVars
    /\ UNCHANGED runVars
    /\ UNCHANGED auxVars

\* predictions = self._aggregate(label_matrix); return WeakLabelResult(...)
predict_aggregate ==
    /\ pc_label = "aggregate"
    /\ predictions' = [returned |-> TRUE,
                       rows |-> aggregate(label_functions, label_matrix.columns, n_records)]
    /\ pc_label' = "done"
    /\ UNCHANGED <<label_functions, n_records, index, lf_pos, matrix, n_calls,
                   last_call, label_matrix, error, metrics, records, previous>>
    /\ UNCHANGED engineVars
    /\ UNCHANGED runVars
    /\ UNCHANGED auxVars

LabelNext ==
    \/ ProbabilisticLabelModel_init
    \/ apply_label_functions
    \/ apply_return
    \/ predict_aggregate

SpecLabel == LabelInit /\ [][LabelNext]_vars

----------------------------------------------------------------------------
(* Claims on the label executor and aggregator (SpecLabel)                 *)

\* Positions of the label functions whose cell in row i holds the given label.
Voters(i, label) ==
    {k \in 1..Len(label_functions) :
        label_matrix.columns[label_functions[k].name][i] = label}

RECURSIVE WeightSum(_)
WeightSum(S) ==
    IF S = {} THEN 0
    ELSE LET k == CHOOSE x \in S : TRUE
         IN label_functions[k].weight + WeightSum(S \ {k})

Pos(i) == WeightSum(Voters(i, POSITIVE_LABEL))

Neg(i) == WeightSum(Voters(i, NEGATIVE_LABEL))

\* C4: for every record, with pos and neg the summed weights of the functions
\* voting positive and negative, y_weak is abstain when pos + neg = 0;
\* otherwise it is positive iff pos > neg, negative iff pos < neg and abstain
\* iff pos = neg.
C4_WeightedVote ==
    pc_label = "done" =>
        \A i \in 1..n_records :
            LET y == predictions.rows[i].y_weak
            IN /\ (Pos(i) + Neg(i) = 0) => y = ABSTAIN
               /\ (Pos(i) + Neg(i) # 0) =>
                     /\ (y = POSITIVE_LABEL) <=> (Pos(i) > Neg(i))
                     /\ (y = NEGATIVE_LABEL) <=> (Pos(i) < Neg(i))
                     /\ (y = ABSTAIN) <=> (Pos(i) = Neg(i))

\* C4 witness: a finished predict with a record on which one function voted
\* positive and another, of the same non-zero weight, voted negative, and
\* whose y_weak is abstain.
C4_Witness ==
    /\ pc_label = "done"
    /\ \E i \in 1..n_records :
          /\ Cardinality(Voters(i, POSITIVE_LABEL)) = 1
          /\ Cardinality(Voters(i, NEGATIVE_LABEL)) = 1
          /\ Pos(i) = Neg(i)
          /\ Pos(i) > 0
          /\ predictions.rows[i].y_weak = ABSTAIN

\* C5: for every record and every list of label functions the constructor
\* accepts, confidence equals |pos - neg| / (pos + neg) and lies in [0,1]; it
\* is 1 whenever all voting functions agree and 0 whenever the vote is tied or
\* nobody voted.
C5_ConfidenceUnitInterval ==
    pc_label = "done" =>
        \A i \in 1..n_records :
            LET c == predictions.rows[i].confidence
                voted == Voters(i, POSITIVE_LABEL) \cup Voters(i, NEGATIVE_LABEL)
                unanimous == /\ voted # {}
                             /\ \/ Voters(i, POSITIVE_LABEL) = {}
                                \/ Voters(i, NEGATIVE_LABEL) = {}
            IN /\ (Pos(i) + Neg(i) # 0) =>
                     c.num * (Pos(i) + Neg(i)) = Abs(Pos(i) - Neg(i)) * c.den
               /\ c.den > 0 /\ 0 <= c.num /\ c.num <= c.den
               /\ unanimous => c.num = c.den
               /\ (voted = {} \/ Pos(i) = Neg(i)) => c.num = 0

Unsupported(value) == value \notin {ABSTAIN, NaN, 0, 1}

\* C6, state part: when the latest call returned a value other than 0, 1,
\* None or nan, the run has stopped in LabelFunctionError carrying that
\* function's name and that record's index, and neither a label matrix nor
\* predictions have been returned; the calls made are one per cell visited,
\* the failing one included, so no call was repeated.
C6_Aborted ==
    /\ (last_call.made /\ Unsupported(last_call.value)) =>
          /\ pc_label = "error"
          /\ error.raised
          /\ error.name = last_call.name
          /\ error.record_index = last_call.record_index
          /\ ~label_matrix.returned
          /\ ~predictions.returned
    /\ pc_label \in {"apply", "aggregate", "done"} =>
          n_calls = index * Len(label_functions) + (lf_pos - 1)
    /\ pc_label = "error" =>
          n_calls = index * Len(label_functions) + lf_pos

\* C6, step part: a call that returns an unsupported value is the last step
\* of the run: once in error, nothing is called, returned or changed.
C6_NoStepAfterError ==
    (last_call.made /\ Unsupported(last_call.value)) => UNCHANGED vars

C16_FailFastOnEmpty ==
    /\ label_functions = <<>> =>
          /\ pc_label \in {"new", "config_error"}
          /\ n_calls = 0
          /\ matrix = <<>>
          /\ ~label_matrix.returned
          /\ ~predictions.returned
          /\ ~error.raised
    /\ pc_label = "config_error" => label_functions = <<>>

\* C16 witness: the constructor has raised although two records were waiting
\* for predict.
C16_Witness ==
    /\ pc_label = "config_error"
    /\ label_functions = <<>>
    /\ n_records = 2
    /\ ~predictions.returned

----------------------------------------------------------------------------
(* Label metrics: metrics.py                                               *)

\* Exact quotients num / den, compared by cross-multiplication.
RatioEq(r, num, den) == r.den # 0 /\ den # 0 /\ r.num * den = num * r.den

\* The label matrices apply_label_functions can return for up to
\* MaxLabelFunctions functions and up to MaxRecords records: one column per
\* function, one row per record, cells None, 0 or 1.
LabelMatrices ==
    UNION {[{LabelFunctionNames[k] : k \in 1..l} -> [1..n -> {ABSTAIN, 0, 1}]]
           : l \in 0..MaxLabelFunctions, n \in 0..MaxRecords}

\* len(label_matrix) of pd.DataFrame(matrix): the common length of the columns.
RowCount(m) == IF DOMAIN m = {} THEN 0 ELSE Len(m[CHOOSE c \in DOMAIN m : TRUE])

\* row.notna().sum()
VoteCount(m, i) == Cardinality({c \in DOMAIN m : m[c][i] # ABSTAIN})

\* Mutation of HasConflict: any row with two votes counts as a conflict.
HasConflict_AnyTwoVotes(m, i) == VoteCount(m, i) > 1

\* Mutation of HasConflict: "len(votes) > 0", a single vote counts as a
\* conflict.
HasConflict_AnyVote(m, i) == Cardinality({m[c][i] : c \in DOMAIN m} \ {ABSTAIN}) > 0

\* _has_conflict(row): len(row.dropna().unique()) > 1
HasConflict(m, i) == Cardinality({m[c][i] : c \in DOMAIN m} \ {ABSTAIN}) > 1

\* compute_label_metrics(label_matrix)
compute_label_metrics(m) ==
    IF DOMAIN m = {} \/ RowCount(m) = 0
    THEN [returned |-> TRUE,
          raised |-> FALSE,
          coverage |-> [c \in {} |-> [num |-> 0, den |-> 1]],
          overall_coverage |-> [num |-> 0, den |-> 1],
          overlap_rate |-> [num |-> 0, den |-> 1],
          conflict_rate |-> [num |-> 0, den |-> 1]]
    ELSE LET total_records == RowCount(m)
             rows == 1..total_records
             rows_with_votes == {i \in rows : VoteCount(m, i) > 0}
             overlap_rows == {i \in rows : VoteCount(m, i) > 1}
             conflict_rows == {i \in rows : HasConflict(m, i)}
         IN [returned |-> TRUE,
             raised |-> FALSE,
             coverage |-> [c \in DOMAIN m |->
                              [num |-> Cardinality({i \in rows : m[c][i] # ABSTAIN}),
                               den |-> total_records]],
             overall_coverage |-> [num |-> Cardinality(rows_with_votes),
                                   den |-> total_records],
             overlap_rate |-> [num |-> Cardinality(overlap_rows), den |-> total_records],
             conflict_rate |-> IF Cardinality(rows_with_votes) = 0
                               THEN [num |-> 0, den |-> 1]
                               ELSE [num |-> Cardinality(conflict_rows),
                                     den |-> total_records]]

MetricsInit ==
    /\ AuxIdle
    /\ EngineIdle
    /\ RunIdle
    /\ label_functions = <<>>
    /\ \E m \in LabelMatrices :
          /\ label_matrix = [returned |-> TRUE, columns |-> m]
          /\ n_records = RowCount(m)
    /\ pc_label = "matrix"
    /\ index = 0
    /\ lf_pos = 1
    /\ matrix = <<>>
    /\ n_calls = 0
    /\ last_call = NoCall
    /\ predictions = NoFrame
    /\ error = NoError
    /\ metrics = NoFrame
    /\ records = <<>>
    /\ previous = NoFrame

\* metrics = compute_label_metrics(matrix)
compute_label_metrics_call ==
    /\ pc_label \in {"matrix", "done"}
    /\ metrics' = compute_label_metrics(label_matrix.columns)
    /\ pc_label' = "measured"
    /\ UNCHANGED <<label_functions, n_records, index, lf_pos, matrix, n_calls,
                   last_call, label_matrix, predictions, error, records, previous>>
    /\ UNCHANGED engineVars
    /\ UNCHANGED runVars
    /\ UNCHANGED auxVars

MetricsNext == compute_label_metrics_call

SpecMetrics == MetricsInit /\ [][MetricsNext]_vars

----------------------------------------------------------------------------
(* Claims on the label metrics (SpecMetrics)                               *)

\* Number of rows i of the measured matrix that satisfy P(i), counted row by
\* row.
RECURSIVE CountRows(_, _)
CountRows(P(_), n) ==
    IF n = 0 THEN 0 ELSE CountRows(P, n - 1) + (IF P(n) THEN 1 ELSE 0)

\* C12: for every label matrix with at least one row and one column, each
\* function's coverage is (rows where it did not abstain) / rows,
\* overall_coverage is (rows with at least one vote) / rows, overlap_rate is
\* (rows with two or more votes, agreeing or not) / rows and conflict_rate is
\* (rows holding both a 0 and a 1) / rows.
C12_MetricRatios ==
    (pc_label = "measured" /\ n_records > 0 /\ DOMAIN label_matrix.columns # {}) =>
        LET m == label_matrix.columns
            voted(c, i) == m[c][i] \in {0, 1}
            votes(i) == {c \in DOMAIN m : voted(c, i)}
            AtLeastOne(i) == \E c \in DOMAIN m : voted(c, i)
            AtLeastTwo(i) == \E c, d \in DOMAIN m : c # d /\ voted(c, i) /\ voted(d, i)
            Disagree(i) == \E c, d \in DOMAIN m : m[c][i] = 0 /\ m[d][i] = 1
        IN /\ ~metrics.raised
           /\ DOMAIN metrics.coverage = DOMAIN m
           /\ \A c \in DOMAIN m :
                 LET NotAbstain(i) == voted(c, i)
                 IN RatioEq(metrics.coverage[c], CountRows(NotAbstain, n_records), n_records)
           /\ RatioEq(metrics.overall_coverage, CountRows(AtLeastOne, n_records), n_records)
           /\ RatioEq(metrics.overlap_rate, CountRows(AtLeastTwo, n_records), n_records)
           /\ RatioEq(metrics.conflict_rate, CountRows(Disagree, n_records), n_records)

\* C12 witness: a measured two-row matrix in which one row holds two agreeing
\* votes (overlap without conflict) and the other holds a 0 and a 1, so that
\* overlap_rate is 1 and conflict_rate is 1/2.
C12_Witness ==
    /\ pc_label = "measured"
    /\ n_records = 2
    /\ label_matrix.columns = [lf1 |-> <<1, 0>>, lf2 |-> <<1, 1>>]
    /\ RatioEq(metrics.overlap_rate, 1, 1)
    /\ RatioEq(metrics.conflict_rate, 1, 2)

\* The ratio a is at most the ratio b.
RatioLe(a, b) == a.num * b.den <= b.num * a.den

\* C29: for every label matrix, 0 <= conflict_rate <= overlap_rate <=
\* overall_coverage <= 1, and the coverage of every label function is
\* <= overall_coverage.
C29_RatesOrdered ==
    pc_label = "measured" =>
        /\ ~metrics.raised
        /\ RatioLe([num |-> 0, den |-> 1], metrics.conflict_rate)
        /\ RatioLe(metrics.conflict_rate, metrics.overlap_rate)
        /\ RatioLe(metrics.overlap_rate, metrics.overall_coverage)
        /\ RatioLe(metrics.overall_coverage, [num |-> 1, den |-> 1])
        /\ \A c \in DOMAIN metrics.coverage :
              RatioLe(metrics.coverage[c], metrics.overall_coverage)

\* C29 witness: two records, the first with two agreeing votes and the second
\* with one vote: conflict_rate 0 < overlap_rate 1/2 < overall_coverage 1,
\* and the second function covers half of the records.
C29_Witness ==
    /\ pc_label = "measured"
    /\ label_matrix.columns = [lf1 |-> <<1, 0>>, lf2 |-> <<1, ABSTAIN>>]
    /\ RatioEq(metrics.conflict_rate, 0, 1)
    /\ RatioEq(metrics.overlap_rate, 1, 2)
    /\ RatioEq(metrics.overall_coverage, 1, 1)
    /\ RatioEq(metrics.coverage["lf2"], 1, 2)

\* C13: for a label matrix with zero rows, compute_label_metrics raises
\* nothing and returns 0 for overall_coverage, overlap_rate and conflict_rate
\* and a coverage of 0 for every label function (column) of the matrix.
C13_EmptyMatrixZero ==
    (pc_label = "measured" /\ n_records = 0) =>
        /\ ~metrics.raised
        /\ RatioEq(metrics.overall_coverage, 0, 1)
        /\ RatioEq(metrics.overlap_rate, 0, 1)
        /\ RatioEq(metrics.conflict_rate, 0, 1)
        /\ \A c \in DOMAIN label_matrix.columns :
              /\ c \in DOMAIN metrics.coverage
              /\ RatioEq(metrics.coverage[c], 0, 1)

----------------------------------------------------------------------------
(* The label functions and records of tests/test_weak_supervision.py, run  *)
(* through predict twice and through compute_label_metrics.                *)
(* chargeback_rate is in hundredths and the weights are in tenths.         *)

\* _build_dataset()
ScenarioRows ==
    << [is_tor |-> TRUE,  velocity |-> 6, chargeback_rate |-> 70],
       [is_tor |-> FALSE, velocity |-> 2, chargeback_rate |-> 20],
       [is_tor |-> TRUE,  velocity |-> 3, chargeback_rate |-> 80],
       [is_tor |-> FALSE, velocity |-> 0, chargeback_rate |-> 30],
       [is_tor |-> FALSE, velocity |-> 5, chargeback_rate |-> 5] >>

\* The datasets of the runs: the slices of _build_dataset(), the empty one and
\* the whole among them.
ScenarioDatasets ==
    {SubSeq(ScenarioRows, a, b) : a \in 1..(Len(ScenarioRows) + 1), b \in 0..Len(ScenarioRows)}

\* _label_functions()
ScenarioLabelFunctions ==
    << [name |-> "lf_tor_exit", weight |-> 12, labels |-> DEFAULT_LABELS],
       [name |-> "lf_chargeback", weight |-> 10, labels |-> DEFAULT_LABELS],
       [name |-> "lf_velocity", weight |-> 10, labels |-> DEFAULT_LABELS] >>

\* Mutation of ScenarioFunc: lf_chargeback votes 0 only strictly below 0.2.
ScenarioFunc_StrictThreshold(name, row) ==
    CASE name = "lf_tor_exit" -> IF row.is_tor THEN 1 ELSE ABSTAIN
      [] name = "lf_chargeback" ->
            IF row.chargeback_rate >= 50 THEN 1
            ELSE IF row.chargeback_rate < 20 THEN 0 ELSE ABSTAIN
      [] name = "lf_velocity" ->
            IF row.velocity >= 5 THEN 1
            ELSE IF row.velocity = 0 THEN 0 ELSE ABSTAIN

\* The func of each of the three label functions, on a record.
ScenarioFunc(name, row) ==
    CASE name = "lf_tor_exit" -> IF row.is_tor THEN 1 ELSE ABSTAIN
      [] name = "lf_chargeback" ->
            IF row.chargeback_rate >= 50 THEN 1
            ELSE IF row.chargeback_rate <= 20 THEN 0 ELSE ABSTAIN
      [] name = "lf_velocity" ->
            IF row.velocity >= 5 THEN 1
            ELSE IF row.velocity = 0 THEN 0 ELSE ABSTAIN

ScenarioInit ==
    /\ AuxIdle
    /\ EngineIdle
    /\ RunIdle
    /\ label_functions = ScenarioLabelFunctions
    /\ records \in ScenarioDatasets
    /\ n_records = Len(records)
    /\ pc_label = "new"
    /\ index = 0
    /\ lf_pos = 1
    /\ matrix = <<>>
    /\ n_calls = 0
    /\ last_call = NoCall
    /\ label_matrix = NoFrame
    /\ predictions = NoFrame
    /\ error = NoError
    /\ metrics = NoFrame
    /\ previous = NoFrame

\* One iteration of the inner loop of apply_label_functions, the callable
\* being the scenario's.
apply_scenario_functions ==
    /\ pc_label = "apply"
    /\ index < n_records
    /\ ApplyCell(ScenarioFunc(label_functions[lf_pos].name, records[index + 1]))
    /\ UNCHANGED <<label_functions, n_records, label_matrix, predictions, metrics,
                   records, previous>>
    /\ UNCHANGED engineVars
    /\ UNCHANGED runVars
    /\ UNCHANGED auxVars

\* model.predict(records) called again on the same model and the same
\* records, up to the first iteration of apply_label_functions; the earlier
\* result stays with the caller.
predict_again ==
    /\ pc_label = "done"
    /\ ~previous.returned
    /\ previous' = [returned |-> TRUE, label_matrix |-> label_matrix,
                    predictions |-> predictions]
    /\ matrix' = FreshMatrix(label_functions, matrix)
    /\ index' = 0
    /\ lf_pos' = 1
    /\ label_matrix' = NoFrame
    /\ predictions' = NoFrame
    /\ pc_label' = "apply"
    /\ UNCHANGED <<label_functions, n_records, n_calls, last_call, error, metrics,
                   records>>
    /\ UNCHANGED engineVars
    /\ UNCHANGED runVars
    /\ UNCHANGED auxVars

ScenarioNext ==
    \/ ProbabilisticLabelModel_init
    \/ apply_scenario_functions
    \/ apply_return
    \/ predict_aggregate
    \/ predict_again
    \/ compute_label_metrics_call

SpecScenario == ScenarioInit /\ [][ScenarioNext]_vars

----------------------------------------------------------------------------
(* Claims on the scenario (SpecScenario)                                   *)

\* C14: on the five records with lf_tor_exit (1.2), lf_chargeback (1.0) and
\* lf_velocity (1.0), predict yields y_weak = [1, 0, 1, 0, abstain] with
\* confidence 1 on rows 0 and 1 and 0 on row 4, and the metrics of the label
\* matrix are coverage 0.4 / 0.8 / 0.6, overall_coverage 1, overlap_rate 0.6
\* and conflict_rate 0.2.
C14_Scenario ==
    (records = ScenarioRows /\ label_functions = ScenarioLabelFunctions) =>
        /\ predictions.returned =>
              /\ [i \in 1..5 |-> predictions.rows[i].y_weak] = <<1, 0, 1, 0, ABSTAIN>>
              /\ RatioEq(predictions.rows[1].confidence, 1, 1)
              /\ RatioEq(predictions.rows[2].confidence, 1, 1)
              /\ RatioEq(predictions.rows[5].confidence, 0, 1)
        /\ metrics.returned =>
              /\ RatioEq(metrics.coverage["lf_tor_exit"], 4, 10)
              /\ RatioEq(metrics.coverage["lf_chargeback"], 8, 10)
              /\ RatioEq(metrics.coverage["lf_velocity"], 6, 10)
              /\ RatioEq(metrics.overall_coverage, 1, 1)
              /\ RatioEq(metrics.overlap_rate, 6, 10)
              /\ RatioEq(metrics.conflict_rate, 2, 10)

\* C14 witness: predict and compute_label_metrics have both returned on the
\* five records.
C14_Witness ==
    /\ records = ScenarioRows
    /\ label_functions = ScenarioLabelFunctions
    /\ pc_label = "measured"
    /\ predictions.returned
    /\ metrics.returned

\* apply(label_functions, records), cell by cell from the records alone.
AppliedMatrix ==
    [name \in {label_functions[k].name : k \in 1..Len(label_functions)} |->
        [i \in 1..Len(records) |->
            LET raw == ScenarioFunc(name, records[i])
            IN IF raw \in {0, 1} THEN raw ELSE ABSTAIN]]

\* C15: a second predict on the same records returns the label matrix and
\* the predictions of the first, and every label matrix returned equals the
\* label functions applied to the records.
C15_NoHiddenState ==
    /\ (previous.returned /\ predictions.returned) =>
          /\ label_matrix = previous.label_matrix
          /\ predictions = previous.predictions
    /\ label_matrix.returned => label_matrix.columns = AppliedMatrix
    /\ previous.returned => previous.label_matrix.columns = AppliedMatrix

\* C15 witness: the second predict over the five records has returned.
C15_Witness ==
    /\ previous.returned
    /\ predictions.returned
    /\ records = ScenarioRows
    /\ Len(label_matrix.columns["lf_velocity"]) = 5

----------------------------------------------------------------------------
(* Feature assembly: engineer_features() and run()                         *)

\* pd.Timestamp(0, tz="UTC")
EPOCH == 0

\* event_time values of the input: unparseable (NaT after coercion), or a
\* whole hour: 01:00 on 1 January 1970 and 02:00 on the following day.
EventTimes == {NaT, 1, 26}

\* ip values of the input: a key, or missing.
IpValues == {"a", KeyNone}

\* label: StrictInt = Field(..., ge=0, le=1)
LabelValues == {0, 1}

\* --sample-size: absent (0), or a size.
SampleSizes == {0, 1, 2}

InputRows == [event_time : EventTimes, ip : IpValues, label : LabelValues]

\* The files up to MaxRows rows; id is the position of the row in the file.
InputFiles ==
    UNION {{[i \in 1..n |-> [id |-> i,
                             event_time |-> f[i].event_time,
                             ip |-> f[i].ip,
                             label |-> f[i].label]] : f \in [1..n -> InputRows]}
           : n \in 0..MaxRows}

Orderings(n) ==
    {p \in [1..n -> 1..n] : \A i, j \in 1..n : i # j => p[i] # p[j]}

\* Position of a raw event_time in DataFrame.sort_values(by=time_column):
\* ascending, missing values last.
SortRank(event_time) == IF event_time = NaT THEN 1000000 ELSE event_time

\* Mutation of sort_values: sorts on the resolved timestamp, so that an
\* unparseable row is placed where the epoch belongs.
sort_values_Resolved(frame) ==
    {[i \in 1..Len(frame) |-> frame[p[i]]] : p \in
        {q \in Orderings(Len(frame)) :
            \A i \in 1..(Len(frame) - 1) :
                (IF frame[q[i]].event_time = NaT THEN EPOCH ELSE frame[q[i]].event_time)
                    <= (IF frame[q[i + 1]].event_time = NaT THEN EPOCH
                        ELSE frame[q[i + 1]].event_time)}}

\* frame.sort_values(by=args.time_column): every arrangement the default,
\* unstable sort may produce.
sort_values(frame) ==
    {[i \in 1..Len(frame) |-> frame[p[i]]] : p \in
        {q \in Orderings(Len(frame)) :
            \A i \in 1..(Len(frame) - 1) :
                SortRank(frame[q[i]].event_time) <= SortRank(frame[q[i + 1]].event_time)}}

\* Mutation of Resolve: rows whose event_time is unparseable are dropped.
Resolve_DropUnparseable(frame) ==
    LET kept == SelectSeq(frame, LAMBDA r : r.event_time # NaT)
    IN [i \in 1..Len(kept) |->
           [id |-> kept[i].id,
            ts |-> kept[i].event_time,
            key |-> IF kept[i].ip = KeyNone THEN "unknown" ELSE kept[i].ip,
            label |-> kept[i].label]]

\* The series engineer_features derives from the frame, row by row:
\*   timestamps = _ensure_datetime(df[time_column]).fillna(pd.Timestamp(0, tz="UTC"))
\*   keys = df[column_name].fillna("unknown").astype(str)
\*   label_series = _safe_column(df, label_column, default=0.0)
Resolve(frame) ==
    [i \in 1..Len(frame) |->
        [id |-> frame[i].id,
         ts |-> IF frame[i].event_time = NaT THEN EPOCH ELSE frame[i].event_time,
         key |-> IF frame[i].ip = KeyNone THEN "unknown" ELSE frame[i].ip,
         label |-> frame[i].label]]

\* _compute_rolling_counts(times, keys, window, weights): the result array.
RECURSIVE RollingLoop(_, _, _, _, _, _, _)
RollingLoop(times, keys, weights, win, idx, bufs, res) ==
    IF idx > Len(times) THEN res
    ELSE LET step == ObserveStep(bufs, times[idx], keys[idx], weights[idx], win)
         IN RollingLoop(times, keys, weights, win, idx + 1, step.buffers,
                        Append(res, step.value))

compute_rolling_counts(times, keys, win, weights) ==
    RollingLoop(times, keys, weights, win, 1, [k \in Range(keys) |-> <<>>], <<>>)

\* Mutation of PositiveRate: the operands of the division are swapped.
PositiveRate_Swapped(weighted, rolling_total) ==
    IF weighted > 0
    THEN [num |-> rolling_total, den |-> weighted]
    ELSE [num |-> 0, den |-> 1]

\* np.divide(weighted, rolling_total, out=np.zeros_like(weighted),
\*           where=rolling_total > 0): the exact quotient num / den.
PositiveRate(weighted, rolling_total) ==
    IF rolling_total > 0
    THEN [num |-> weighted, den |-> rolling_total]
    ELSE [num |-> 0, den |-> 1]

RECURSIVE Insert(_, _)
Insert(x, s) ==
    IF s = <<>> THEN <<x>>
    ELSE IF x <= Head(s) THEN <<x>> \o s
    ELSE <<Head(s)>> \o Insert(x, Tail(s))

RECURSIVE SortAscending(_)
SortAscending(s) == IF s = <<>> THEN <<>> ELSE Insert(Head(s), SortAscending(Tail(s)))

\* Mutation of burstiness: the gaps are taken between the timestamps in the
\* order given, without "timestamps = sorted(timestamps)".
burstiness_Unsorted(ts) ==
    IF Len(ts) < 3 THEN <<>>
    ELSE LET gaps == [i \in 1..(Len(ts) - 1) |-> ts[i + 1] - ts[i]]
         IN IF \A i \in 1..Len(gaps) : gaps[i] = 0 THEN <<>> ELSE SortAscending(gaps)

\* _burstiness(timestamps).  The value (sigma - mu) / (sigma + mu + 1e-9) is a
\* function of the gaps between the sorted timestamps; it is represented by
\* the sorted gaps, and the exact 0.0 of the two early returns by <<>>.
burstiness(ts) ==
    IF Len(ts) < 3 THEN <<>>
    ELSE LET sorted == SortAscending(ts)
             gaps == [i \in 1..(Len(sorted) - 1) |-> sorted[i + 1] - sorted[i]]
         IN IF \A i \in 1..Len(gaps) : gaps[i] = 0 THEN <<>> ELSE SortAscending(gaps)

CalendarColumns == {"hour_of_day", "day_of_week", "is_weekend", "event_age_hours"}

RollingEventsColumn ==
    [w1h |-> "ip_rolling_events_1h", w24h |-> "ip_rolling_events_24h",
     w7d |-> "ip_rolling_events_7d"]

RollingRateColumn ==
    [w1h |-> "ip_rolling_positive_rate_1h", w24h |-> "ip_rolling_positive_rate_24h",
     w7d |-> "ip_rolling_positive_rate_7d"]

RollingEventsColumns == {RollingEventsColumn[w] : w \in WindowNames}

RollingRateColumns == {RollingRateColumn[w] : w \in WindowNames}

\* The columns the include_history branch adds.
HistoryColumns ==
    RollingEventsColumns \cup RollingRateColumns \cup {"ip_entropy", "ip_burstiness"}

MaxOf(s) == CHOOSE x \in Range(s) : \A y \in Range(s) : y <= x

\* Mutation of HistoryFeatureColumns: the include_history flag is ignored.
HistoryFeatureColumns_Unguarded(include_history, has_positive) ==
    RollingEventsColumns
        \cup (IF has_positive THEN RollingRateColumns ELSE {})
        \cup {"ip_entropy", "ip_burstiness"}

\* Mutation of HistoryFeatureColumns: the entropy / burstiness block sits
\* outside the include_history guard.
HistoryFeatureColumns_BurstUnguarded(include_history, has_positive) ==
    (IF include_history
     THEN RollingEventsColumns \cup (IF has_positive THEN RollingRateColumns ELSE {})
     ELSE {})
        \cup {"ip_entropy", "ip_burstiness"}

\* The columns added under "if include_history:", the rate columns among them
\* only under "if label_series.sum() > 0:".
HistoryFeatureColumns(include_history, has_positive) ==
    IF include_history
    THEN RollingEventsColumns
            \cup (IF has_positive THEN RollingRateColumns ELSE {})
            \cup {"ip_entropy", "ip_burstiness"}
    ELSE {}

\* "rolling" in column or column.endswith("_entropy")
\*     or column.endswith("_burstiness"), on the column names of the model.
requires_history(column) ==
    \/ column \in RollingEventsColumns \cup RollingRateColumns
    \/ column = "ip_entropy"
    \/ column = "ip_burstiness"

\* engineer_features(df, include_history=...): the output table, its rows in
\* the order of df, the timestamps series and the metadata.
engineer_features(frame0, include_history) ==
    LET frame == Resolve(frame0)
        n == Len(frame)
        times == [i \in 1..n |-> frame[i].ts]
        keys == [i \in 1..n |-> frame[i].key]
        labels == [i \in 1..n |-> frame[i].label]
        ones == [i \in 1..n |-> 1]
        latest == MaxOf(times)
        \* for window_name, window_delta in ROLLING_WINDOWS.items(): ...
        total_1h == compute_rolling_counts(times, keys, ROLLING_WINDOWS.w1h, ones)
        total_24h == compute_rolling_counts(times, keys, ROLLING_WINDOWS.w24h, ones)
        total_7d == compute_rolling_counts(times, keys, ROLLING_WINDOWS.w7d, ones)
        weighted_1h == compute_rolling_counts(times, keys, ROLLING_WINDOWS.w1h, labels)
        weighted_24h == compute_rolling_counts(times, keys, ROLLING_WINDOWS.w24h, labels)
        weighted_7d == compute_rolling_counts(times, keys, ROLLING_WINDOWS.w7d, labels)
        has_positive == SumSeq(labels) > 0
        burst(k) ==
            LET group == SelectSeq(frame, LAMBDA r : r.key = k)
            IN burstiness([j \in 1..Len(group) |-> group[j].ts])
        cols == CalendarColumns
                \cup HistoryFeatureColumns(include_history, has_positive)
                \cup {"label"}
        value(c, i) ==
            CASE c = "hour_of_day" -> times[i] % 24
              [] c = "day_of_week" -> ((times[i] \div 24) + 3) % 7
              [] c = "is_weekend" ->
                    IF ((times[i] \div 24) + 3) % 7 \in {5, 6} THEN 1 ELSE 0
              [] c = "event_age_hours" -> latest - times[i]
              [] c = "label" -> labels[i]
              [] c = "ip_entropy" -> 0
              [] c = "ip_burstiness" -> burst(keys[i])
              [] c = "ip_rolling_events_1h" -> total_1h[i]
              [] c = "ip_rolling_events_24h" -> total_24h[i]
              [] c = "ip_rolling_events_7d" -> total_7d[i]
              [] c = "ip_rolling_positive_rate_1h" ->
                    PositiveRate(weighted_1h[i], total_1h[i])
              [] c = "ip_rolling_positive_rate_24h" ->
                    PositiveRate(weighted_24h[i], total_24h[i])
              [] c = "ip_rolling_positive_rate_7d" ->
                    PositiveRate(weighted_7d[i], total_7d[i])
    IN [output |-> [i \in 1..n |-> [index |-> frame[i].id,
                                    cols |-> [c \in cols |-> value(c, i)]]],
        timestamps |-> times,
        metadata |-> [rows |-> n, feature_columns |-> cols \ {"label"},
                      parity |-> [c \in cols \ {"label"} |-> requires_history(c)]]]

\* The columns of an input that has them all.
InputColumns == {"event_time", "ip", "label"}

DEFAULT_TIME_COLUMN == "event_time"

\* if time_column not in df.columns
MissingTimeColumn(cols) == DEFAULT_TIME_COLUMN \notin cols

\* raise SystemExit(f"Dataset must include column '{time_column}' for temporal
\* features")
MissingColumnExit ==
    [raised |-> TRUE, type |-> "SystemExit", column |-> DEFAULT_TIME_COLUMN]

\* The KeyError(by) that DataFrame.sort_values(by=...) raises for a column the
\* frame does not have.
SortKeyError == [raised |-> TRUE, type |-> "KeyError", column |-> DEFAULT_TIME_COLUMN]

RunInit ==
    /\ AuxIdle
    /\ EngineIdle
    /\ LabelIdle
    /\ input \in InputFiles
    /\ columns \in {InputColumns, InputColumns \ {DEFAULT_TIME_COLUMN}}
    /\ MissingTimeColumn(columns) => \A i \in 1..Len(input) : input[i].event_time = NaT
    /\ failure = NoError
    /\ args \in [stream : BOOLEAN, sample_size : SampleSizes]
    /\ pc = "run"
    /\ iterator = input
    /\ df = <<>>
    /\ timestamps = <<>>
    /\ feats = <<>>
    /\ meta = NoFrame
    /\ written = <<>>
    /\ total_rows = 0
    /\ metadata = NoFrame

\* The rows of frame at the positions in S, in frame order:
\* frame.iloc[np.sort(sample_indices)]
Take(frame, S) ==
    LET F[i \in 0..Len(frame)] ==
            IF i = 0 THEN <<>>
            ELSE IF i \in S THEN Append(F[i - 1], frame[i]) ELSE F[i - 1]
    IN F[Len(frame)]

\* The frames the batch branch may hand to engineer_features: the sorted
\* input, or, when --sample-size is smaller than the input, any sample of
\* that size drawn by rng.choice and sorted again.
BatchFrames ==
    UNION {IF args.sample_size > 0 /\ Len(sorted) > args.sample_size
           THEN UNION {sort_values(Take(sorted, S)) :
                           S \in {T \in SUBSET (1..Len(sorted)) :
                                      Cardinality(T) = args.sample_size}}
           ELSE {sorted}
           : sorted \in sort_values(input)}

\* run(), batch branch: load, sort, sample, engineer_features, write the
\* table and the manifest.
run_batch ==
    /\ pc = "run"
    /\ ~args.stream
    /\ IF MissingTimeColumn(columns)
       THEN \* frame.sort_values(by=args.time_column) raises
            /\ failure' = SortKeyError
            /\ pc' = "failed"
            /\ UNCHANGED <<iterator, df, timestamps, feats, meta, written, metadata>>
       ELSE /\ \E frame \in BatchFrames :
                  LET out == engineer_features(frame, TRUE)
                  IN /\ df' = frame
                     /\ timestamps' = out.timestamps
                     /\ feats' = out.output
                     /\ meta' = [returned |-> TRUE, rows |-> out.metadata.rows,
                                 feature_columns |-> out.metadata.feature_columns,
                                 parity |-> out.metadata.parity]
                     /\ written' = out.output
                     /\ metadata' = [returned |-> TRUE,
                                     rows |-> out.metadata.rows,
                                     feature_columns |-> out.metadata.feature_columns,
                                     sample_size |-> args.sample_size]
            /\ pc' = "done"
            /\ iterator' = <<>>
            /\ UNCHANGED failure
    /\ UNCHANGED <<input, args, total_rows, columns>>
    /\ UNCHANGED engineVars
    /\ UNCHANGED labelVars
    /\ UNCHANGED auxVars

\* Mutation of SampleExhausted: the loop never breaks.
SampleExhausted_Never == FALSE

\* remaining = max(0, args.sample_size - total_rows); remaining <= 0
SampleExhausted ==
    /\ args.sample_size > 0
    /\ (IF args.sample_size - total_rows > 0 THEN args.sample_size - total_rows ELSE 0) <= 0

\* The manifest of the streaming branch.
StreamMetadata ==
    [returned |-> TRUE,
     rows |-> total_rows,
     streaming |-> TRUE,
     history_features_included |-> FALSE,
     sample_size |-> args.sample_size]

\* run(), streaming branch, one iteration of "for chunk in iterator" that
\* reaches _write_chunk: sort the chunk, cut it to the remaining sample,
\* engineer_features without history, append to the parquet writer.
run_stream_chunk ==
    /\ pc = "run"
    /\ args.stream
    /\ iterator # <<>>
    /\ ~SampleExhausted
    /\ \E size \in 1..Len(iterator) :
          \E sorted \in (IF MissingTimeColumn(columns)
                         THEN {SubSeq(iterator, 1, size)}
                         ELSE sort_values(SubSeq(iterator, 1, size))) :
             LET remaining == args.sample_size - total_rows
                 chunk == IF args.sample_size > 0 /\ Len(sorted) > remaining
                          THEN SubSeq(sorted, 1, remaining)
                          ELSE sorted
                 out == engineer_features(chunk, FALSE)
             IN /\ iterator' = SubSeq(iterator, size + 1, Len(iterator))
                /\ df' = chunk
                /\ IF MissingTimeColumn(columns)
                   THEN \* engineer_features raises on entry
                        /\ failure' = MissingColumnExit
                        /\ pc' = "failed"
                        /\ UNCHANGED <<timestamps, feats, meta, written, total_rows>>
                   ELSE /\ timestamps' = out.timestamps
                        /\ feats' = out.output
                        /\ meta' = [returned |-> TRUE, rows |-> out.metadata.rows,
                                    feature_columns |-> out.metadata.feature_columns,
                                    parity |-> out.metadata.parity]
                        /\ written' = written \o out.output
                        /\ total_rows' = total_rows + Len(out.output)
                        /\ UNCHANGED <<pc, failure>>
    /\ UNCHANGED <<input, args, metadata, columns>>
    /\ UNCHANGED engineVars
    /\ UNCHANGED labelVars
    /\ UNCHANGED auxVars

\* run(), streaming branch: the iterator yields a chunk when the sample is
\* already complete; the loop breaks, the writer is closed and the manifest
\* written.
run_stream_break ==
    /\ pc = "run"
    /\ args.stream
    /\ iterator # <<>>
    /\ SampleExhausted
    /\ \E size \in 1..Len(iterator) :
          iterator' = SubSeq(iterator, size + 1, Len(iterator))
    /\ metadata' = StreamMetadata
    /\ pc' = "done"
    /\ UNCHANGED <<input, args, df, timestamps, feats, meta, written, total_rows,
                   columns, failure>>
    /\ UNCHANGED engineVars
    /\ UNCHANGED labelVars
    /\ UNCHANGED auxVars

\* run(), streaming branch: the iterator is exhausted; the writer is closed
\* and the manifest written.
run_stream_end ==
    /\ pc = "run"
    /\ args.stream
    /\ iterator = <<>>
    /\ metadata' = StreamMetadata
    /\ pc' = "done"
    /\ UNCHANGED <<input, args, iterator, df, timestamps, feats, meta, written,
                   total_rows, columns, failure>>
    /\ UNCHANGED engineVars
    /\ UNCHANGED labelVars
    /\ UNCHANGED auxVars

Next ==
    \/ run_batch
    \/ run_stream_chunk
    \/ run_stream_break
    \/ run_stream_end

Spec == RunInit /\ [][Next]_vars

----------------------------------------------------------------------------
(* Claims on feature assembly (Spec)                                       *)

\* C3: in every batch pass the timestamps handed to the rolling window
\* engine are in non-decreasing order, also when the input arrives unsorted
\* and when it holds rows with an unparseable event_time.
C3_DispatchOrdered ==
    (pc = "done" /\ ~args.stream) => NonDecreasing(timestamps)

RateInUnitInterval(r) == r.den > 0 /\ 0 <= r.num /\ r.num <= r.den

\* C8: every rolling_positive_rate written lies in [0,1] and is 0 when the
\* rolling total of its window is 0; the guarded division yields 0 for a zero
\* total whatever the weighted count is.
C8_RateSafety ==
    /\ \A i \in 1..Len(written) :
          \A w \in WindowNames :
              RollingRateColumn[w] \in DOMAIN written[i].cols =>
                  LET rate == written[i].cols[RollingRateColumn[w]]
                      total == written[i].cols[RollingEventsColumn[w]]
                  IN /\ RateInUnitInterval(rate)
                     /\ total = 0 => rate.num = 0
    /\ \A weighted \in 0..MaxRows :
          /\ PositiveRate(weighted, 0).num = 0
          /\ PositiveRate(weighted, 0).den # 0

\* C8 witness: a written row whose positive rate over some window is
\* strictly between 0 and 1.
C8_Witness ==
    \E i \in 1..Len(written) :
        \E w \in WindowNames :
            /\ RollingRateColumn[w] \in DOMAIN written[i].cols
            /\ written[i].cols[RollingRateColumn[w]].num = 1
            /\ written[i].cols[RollingRateColumn[w]].den = 2

\* The table a batch run over the same input could produce.
BatchTables == {engineer_features(frame, TRUE).output : frame \in sort_values(input)}

RowOf(table, id) == table[CHOOSE i \in 1..Len(table) : table[i].index = id]

\* C9 as stated: after an unsampled streaming run, every row carries the
\* feature values it has in a batch run over the same input.
C9_StreamEqualsBatch ==
    (pc = "done" /\ args.stream /\ args.sample_size = 0) =>
        \A table \in BatchTables :
            \A i \in 1..Len(written) :
                LET batch == RowOf(table, written[i].index).cols
                    stream == written[i].cols
                IN /\ DOMAIN stream = DOMAIN batch
                   /\ \A c \in DOMAIN stream : stream[c] = batch[c]

RowLocalColumns == {"hour_of_day", "day_of_week", "is_weekend", "label"}

\* C9 amended: after an unsampled streaming run, every row has been written
\* once, its row-local columns carry the values of a batch run over the same
\* input for any split into chunks, and it has no history column.
C9_StreamRowLocalEqualsBatch ==
    (pc = "done" /\ args.stream /\ args.sample_size = 0) =>
        /\ {written[i].index : i \in 1..Len(written)} = 1..Len(input)
        /\ Len(written) = Len(input)
        /\ \A table \in BatchTables :
              \A i \in 1..Len(written) :
                  LET batch == RowOf(table, written[i].index).cols
                      stream == written[i].cols
                  IN /\ RowLocalColumns \subseteq DOMAIN stream
                     /\ \A c \in RowLocalColumns : stream[c] = batch[c]
                     /\ DOMAIN stream \cap HistoryColumns = {}

\* C9 witness: an unsampled streaming run that wrote two rows of one key from
\* two chunks; the batch table counts two events for one of them, and the
\* earlier row's event_age_hours differs between the two modes.
C9_Witness ==
    /\ pc = "done" /\ args.stream /\ args.sample_size = 0
    /\ Len(written) = 2
    /\ Len(df) = 1
    /\ \E table \in BatchTables :
          \E i \in 1..2 :
              /\ RowOf(table, written[i].index).cols["ip_rolling_events_7d"] = 2
              /\ \E j \in 1..2 :
                    RowOf(table, written[j].index).cols["event_age_hours"]
                        # written[j].cols["event_age_hours"]

\* C10: in streaming mode no written row has a rolling count, rolling
\* positive rate, entropy or burstiness column, and the manifest of the run
\* says that history features are not included.
C10_StreamNoHistory ==
    args.stream =>
        /\ \A i \in 1..Len(written) : DOMAIN written[i].cols \cap HistoryColumns = {}
        /\ \A i \in 1..Len(feats) : DOMAIN feats[i].cols \cap HistoryColumns = {}
        /\ pc = "done" =>
              /\ metadata.streaming
              /\ ~metadata.history_features_included

\* C10 witness: a finished streaming run that wrote two rows with positive
\* labels and the same key, for which a batch run computes history features.
C10_Witness ==
    /\ pc = "done" /\ args.stream
    /\ Len(written) = 2
    /\ input[1].ip = input[2].ip
    /\ input[1].label = 1
    /\ "hour_of_day" \in DOMAIN written[1].cols
    /\ ~metadata.history_features_included

\* C11: every column the parity manifest flags requires_history = false has,
\* for each row, the value it has in any other batch holding that row (here:
\* the batch with some of the other rows left out), and every column computed
\* from the rolling window engine or from a per-key aggregate over the batch
\* is flagged requires_history = true.
C11_RowLocalIsPure ==
    (meta.returned /\ ~args.stream) =>
        /\ \A i \in 1..Len(df) :
              \A S \in SUBSET (1..Len(df)) :
                  i \in S =>
                      LET alt == engineer_features(Take(df, S), TRUE)
                          row == RowOf(alt.output, df[i].id).cols
                      IN \A c \in DOMAIN meta.parity :
                            (~meta.parity[c] /\ ~alt.metadata.parity[c]) =>
                                row[c] = feats[i].cols[c]
        /\ \A c \in DOMAIN meta.parity \cap HistoryColumns : meta.parity[c]

\* C17: when the input has rows but no time column, the run ends, in batch
\* mode and in streaming mode alike, in the SystemExit of engineer_features
\* that names the missing column; no feature table has been computed, no row
\* written and no manifest written.
C17_MissingColumnFailsFast ==
    (MissingTimeColumn(columns) /\ input # <<>>) =>
        /\ pc # "done"
        /\ pc = "failed" =>
              /\ failure = MissingColumnExit
              /\ failure.column = DEFAULT_TIME_COLUMN
        /\ ~meta.returned
        /\ written = <<>>
        /\ ~metadata.returned

----------------------------------------------------------------------------
(* Streaming loaders: lib/loader.py, and the thread pool of                *)
(* tests/test_concurrency_idempotency.py that processes their chunks.      *)

Formats == {"csv", "jsonl", "parquet"}

\* What a line of a JSONL file can be: a JSON object, an empty line, a line
\* json.loads rejects, a JSON value that is not an object.
JsonlLines == {"row", "blank", "malformed", "scalar"}

\* The files of up to MaxLines lines; a CSV or Parquet file holds rows only.
Files(format) ==
    UNION {[1..n -> IF format = "jsonl" THEN JsonlLines ELSE {"row"}] : n \in 0..MaxLines}

\* The record at line i: id and value columns as the tests write them.
RowAt(i) == [id |-> i - 1, value |-> i]

\* The rows a full read of the file returns, in file order.
RECURSIVE RowsFrom(_, _)
RowsFrom(f, i) ==
    IF i > Len(f) THEN <<>>
    ELSE (IF f[i] = "row" THEN <<RowAt(i)>> ELSE <<>>) \o RowsFrom(f, i + 1)

\* _process_chunk(df): the chunk with the derived column value_x2.
process_chunk(chunk) ==
    [j \in 1..Len(chunk) |->
        [id |-> chunk[j].id, value |-> chunk[j].value, value_x2 |-> chunk[j].value * 2]]

\* pool.submit(_process_chunk, ch): a new future at the end of the work queue.
Submit(chunk) == Append(futures, [chunk |-> chunk, state |-> "queued", result |-> <<>>])

\* Mutation of AfterYield: the accumulated rows are kept after a yield.
AfterYield_Kept(accumulated) == accumulated

\* iter_jsonl: rows = [] after yield pd.DataFrame.from_records(rows)
AfterYield(accumulated) == <<>>

\* The iterator has raised StopIteration.
Exhausted == pos = Len(file) + 1

StreamInit ==
    /\ EngineIdle
    /\ LabelIdle
    /\ RunIdle
    /\ LimiterIdle
    /\ ExtIdle
    /\ loader \in [format : Formats, chunksize : 1..MaxLines, max_workers : 1..MaxWorkers]
    /\ file \in Files(loader.format)
    /\ pos = 0
    /\ jsonl_rows = <<>>
    /\ futures = <<>>
    /\ par_out = NoFrame

NotStream == <<engineVars, labelVars, runVars, limiterVars, extVars>>

\* iter_csv: the next chunk of pd.read_csv(..., chunksize=chunksize), handed
\* to pool.submit; chunksize rows, fewer at the end of the file.
iter_csv ==
    /\ loader.format = "csv"
    /\ pos < Len(file)
    /\ LET last == IF pos + loader.chunksize < Len(file)
                   THEN pos + loader.chunksize ELSE Len(file)
       IN /\ futures' = Submit(RowsFrom(SubSeq(file, 1, last), pos + 1))
          /\ pos' = last
    /\ UNCHANGED <<loader, file, jsonl_rows, par_out>>
    /\ UNCHANGED NotStream

\* iter_parquet: the next record batch of scanner.to_batches(), at most
\* batch_size rows, handed to pool.submit.
iter_parquet ==
    /\ loader.format = "parquet"
    /\ pos < Len(file)
    /\ \E last \in (pos + 1)..Len(file) :
          /\ last - pos <= loader.chunksize
          /\ futures' = Submit(RowsFrom(SubSeq(file, 1, last), pos + 1))
          /\ pos' = last
    /\ UNCHANGED <<loader, file, jsonl_rows, par_out>>
    /\ UNCHANGED NotStream

\* iter_jsonl: one iteration of "for line in fh"; a full batch is yielded and
\* handed to pool.submit.
iter_jsonl ==
    /\ loader.format = "jsonl"
    /\ pos < Len(file)
    /\ pos' = pos + 1
    /\ IF file[pos + 1] # "row"
       THEN UNCHANGED <<jsonl_rows, futures>>
       ELSE LET accumulated == Append(jsonl_rows, RowAt(pos + 1))
            IN IF Len(accumulated) >= loader.chunksize
               THEN /\ futures' = Submit(accumulated)
                    /\ jsonl_rows' = AfterYield(accumulated)
               ELSE /\ jsonl_rows' = accumulated
                    /\ UNCHANGED futures
    /\ UNCHANGED <<loader, file, par_out>>
    /\ UNCHANGED NotStream

\* The end of the file: iter_jsonl yields the rows left over, and the
\* iterator stops.
iter_stop ==
    /\ pos = Len(file)
    /\ pos' = Len(file) + 1
    /\ IF loader.format = "jsonl" /\ jsonl_rows # <<>>
       THEN futures' = Submit(jsonl_rows)
       ELSE UNCHANGED futures
    /\ UNCHANGED <<loader, file, jsonl_rows, par_out>>
    /\ UNCHANGED NotStream

Running == {i \in 1..Len(futures) : futures[i].state = "running"}

Queued == {i \in 1..Len(futures) : futures[i].state = "queued"}

\* A free thread of the ThreadPoolExecutor takes the oldest queued future.
worker_start ==
    /\ Cardinality(Running) < loader.max_workers
    /\ Queued # {}
    /\ LET i == CHOOSE q \in Queued : \A r \in Queued : q <= r
       IN futures' = [futures EXCEPT ![i].state = "running"]
    /\ UNCHANGED <<loader, file, pos, jsonl_rows, par_out>>
    /\ UNCHANGED NotStream

\* A thread finishes _process_chunk on its chunk.
worker_finish ==
    /\ \E i \in Running :
          futures' = [futures EXCEPT ![i].state = "done",
                                     ![i].result = process_chunk(futures[i].chunk)]
    /\ UNCHANGED <<loader, file, pos, jsonl_rows, par_out>>
    /\ UNCHANGED NotStream

RECURSIVE Concat(_)
Concat(frames) == IF frames = <<>> THEN <<>> ELSE Head(frames) \o Concat(Tail(frames))

\* for f in futures: dfs.append(f.result()); pd.concat(dfs, ignore_index=True)
parallel_process_return ==
    /\ Exhausted
    /\ ~par_out.returned
    /\ \A i \in 1..Len(futures) : futures[i].state = "done"
    /\ par_out' = [returned |-> TRUE,
                   frame |-> Concat([i \in 1..Len(futures) |-> futures[i].result])]
    /\ UNCHANGED <<loader, file, pos, jsonl_rows, futures>>
    /\ UNCHANGED NotStream

StreamNext ==
    \/ iter_csv
    \/ iter_parquet
    \/ iter_jsonl
    \/ iter_stop
    \/ worker_start
    \/ worker_finish
    \/ parallel_process_return

SpecStream == StreamInit /\ [][StreamNext]_vars

----------------------------------------------------------------------------
(* Claims on the streaming loaders (SpecStream)                            *)

\* The rows the iterator has yielded so far, in the order of the chunks.
Yielded == Concat([i \in 1..Len(futures) |-> futures[i].chunk])

\* The rows iter_jsonl holds for a chunk it has not yielded yet.
Held == IF loader.format = "jsonl" /\ ~Exhausted THEN jsonl_rows ELSE <<>>

\* C18: at every moment the chunks yielded, the rows held for the next chunk
\* and the rows not yet read make up the rows of the file, each once and in
\* order, whatever the format and the chunk size; and with any number of
\* workers the frame returned has exactly the rows, and the derived values,
\* of processing the whole file in one piece.
C18_ChunksPartitionFile ==
    /\ Yielded \o Held \o RowsFrom(file, pos + 1) = RowsFrom(file, 1)
    /\ par_out.returned =>
          /\ par_out.frame = process_chunk(RowsFrom(file, 1))
          /\ Len(par_out.frame) = Cardinality({i \in 1..Len(file) : file[i] = "row"})
          /\ \A i, j \in 1..Len(par_out.frame) :
                i # j => par_out.frame[i].id # par_out.frame[j].id

\* C18 witness: a JSONL file with a line that is skipped, read in chunks of
\* one row by two workers; two chunks were processed and the frame returned.
C18_Witness ==
    /\ par_out.returned
    /\ loader = [format |-> "jsonl", chunksize |-> 1, max_workers |-> 2]
    /\ Len(file) = 3
    /\ file[2] = "malformed"
    /\ Len(futures) = 2
    /\ Len(par_out.frame) = 2

----------------------------------------------------------------------------
(* RateLimiter: services/fraud-inference/main.py and                       *)
(* services/inference-ml/main.py (the two classes are the same).           *)
(* time.time() is a clock that never runs backwards, in whole seconds.     *)

TenantKeys == {"a", "b"}

\* RATE_LIMIT_MAX_REQUESTS (0 switches the limiter off) and
\* RATE_LIMIT_WINDOW_SECONDS.
LimiterSettings == [max_requests : {0, 1, 2}, window_seconds : {2}]

\* while bucket and bucket[0] < window_floor: bucket.popleft()
RECURSIVE PopStale(_, _)
PopStale(bucket, window_floor) ==
    IF bucket # <<>> /\ bucket[1] < window_floor
    THEN PopStale(Tail(bucket), window_floor)
    ELSE bucket

LimiterInit ==
    /\ EngineIdle
    /\ LabelIdle
    /\ RunIdle
    /\ StreamIdle
    /\ ExtIdle
    /\ limiter \in LimiterSettings
    /\ clock = 0
    /\ hits = [k \in TenantKeys |-> <<>>]
    /\ inflight = {}
    /\ responses = <<>>

NotLimiter == <<engineVars, labelVars, runVars, streamVars, extVars>>

\* Time passes.
tick ==
    /\ clock < MaxClock
    /\ clock' = clock + 1
    /\ UNCHANGED <<limiter, hits, inflight, responses>>
    /\ UNCHANGED NotLimiter

\* hit(key) up to the lock: the early return when the limiter is off,
\* otherwise now = time.time() and the window floor.
hit_enter ==
    /\ Cardinality(inflight) + Len(responses) < MaxHits
    /\ \E key \in TenantKeys :
          LET call == [id |-> Cardinality(inflight) + Len(responses) + 1,
                       key |-> key, now |-> clock]
          IN IF limiter.max_requests <= 0
             THEN /\ responses' = Append(responses, [id |-> call.id, key |-> key,
                                                     now |-> clock, status |-> 200])
                  /\ UNCHANGED inflight
             ELSE /\ inflight' = inflight \cup {call}
                  /\ UNCHANGED responses
    /\ UNCHANGED <<limiter, clock, hits>>
    /\ UNCHANGED NotLimiter

\* hit(key) under the lock: evict, then raise HTTPException(429) or append
\* now.
hit_locked ==
    /\ \E call \in inflight :
          LET window_floor == call.now - limiter.window_seconds
              bucket == PopStale(hits[call.key], window_floor)
          IN /\ inflight' = inflight \ {call}
             /\ IF Len(bucket) >= limiter.max_requests
                THEN /\ hits' = [hits EXCEPT ![call.key] = bucket]
                     /\ responses' = Append(responses, [id |-> call.id, key |-> call.key,
                                                        now |-> call.now, status |-> 429])
                ELSE /\ hits' = [hits EXCEPT ![call.key] = Append(bucket, call.now)]
                     /\ responses' = Append(responses, [id |-> call.id, key |-> call.key,
                                                        now |-> call.now, status |-> 200])
    /\ UNCHANGED <<limiter, clock>>
    /\ UNCHANGED NotLimiter

LimiterNext ==
    \/ tick
    \/ hit_enter
    \/ hit_locked

SpecLimiter == LimiterInit /\ [][LimiterNext]_vars

----------------------------------------------------------------------------
(* Claims on the rate limiter (SpecLimiter)                                *)

\* The accepted hits on a key whose timestamp lies in [from, from + length).
AcceptedIn(key, from, length) ==
    {i \in 1..Len(responses) :
        /\ responses[i].key = key
        /\ responses[i].status = 200
        /\ responses[i].now >= from
        /\ responses[i].now < from + length}

\* C19: with the limiter on, for every key and every interleaving of the
\* calls, no interval of window_seconds holds the timestamps of more than
\* max_requests accepted hits; every call ends in 200 or 429, and a key's
\* bucket holds timestamps of accepted hits on that key only.
C19_SlidingWindowLimit ==
    limiter.max_requests > 0 =>
        /\ \A key \in TenantKeys :
              \A from \in 0..MaxClock :
                  Cardinality(AcceptedIn(key, from, limiter.window_seconds))
                      <= limiter.max_requests
        /\ \A i \in 1..Len(responses) : responses[i].status \in {200, 429}
        /\ \A key \in TenantKeys :
              \A j \in 1..Len(hits[key]) :
                  \E i \in 1..Len(responses) :
                      /\ responses[i].key = key
                      /\ responses[i].status = 200
                      /\ responses[i].now = hits[key][j]

----------------------------------------------------------------------------
(* Claims on the independence of entity keys (SpecEngine)                  *)

\* The rows of key k in the order they were presented.
KeyFeed(k) == SelectSeq(fed, LAMBDA e : e.key = k)

\* _compute_rolling_counts run over the rows of key k alone.
KeyPass(k) ==
    LET rows == KeyFeed(k)
    IN compute_rolling_counts([j \in 1..Len(rows) |-> rows[j].ts],
                              [j \in 1..Len(rows) |-> rows[j].key],
                              window,
                              [j \in 1..Len(rows) |-> rows[j].weight])

\* _compute_rolling_counts run once over all rows presented so far.
OnePass ==
    compute_rolling_counts([j \in 1..Len(fed) |-> fed[j].ts],
                           [j \in 1..Len(fed) |-> fed[j].key],
                           window,
                           [j \in 1..Len(fed) |-> fed[j].weight])

\* Position of row i among the rows of its own key.
RankInKey(i) == Cardinality({j \in 1..i : fed[j].key = fed[i].key})

\* The per-key passes merged back into presentation order.
MergedPasses ==
    LET pass == [k \in EngineKeys |-> KeyPass(k)]
    IN [i \in 1..Len(fed) |-> pass[fed[i].key][RankInKey(i)]]

\* C20, state part: the values returned so far are those of one pass over
\* all rows, and each equals the value that a pass over the rows of its own
\* key alone returns for it.
C20_MergedEqualsOnePass ==
    /\ result = OnePass
    /\ result = MergedPasses

\* C20, step part: an observe on key k leaves every other key's queue as it
\* was.
C20_OtherQueuesKept ==
    Len(fed') = Len(fed) + 1 =>
        \A k \in EngineKeys \ {fed'[Len(fed')].key} : buffers'[k] = buffers[k]

\* C20: entity keys never interact: the value returned for a row of key k
\* depends only on the rows of key k, an observe on key k leaves every other
\* key's queue unchanged, and one pass per key, merged, gives the same values
\* as one pass over all rows.
C20_KeysNeverInteract ==
    [](C20_MergedEqualsOnePass) /\ [][C20_OtherQueuesKept]_vars

\* C20 witness: rows of two keys interleaved inside one window, all of weight
\* one; the third row counts the first and not the second, whose queue still
\* holds its own entry.
C20_Witness ==
    /\ Len(fed) = 3
    /\ fed[1].key = fed[3].key
    /\ fed[2].key # fed[3].key
    /\ \A j \in 1..3 : fed[j].weight = 1 /\ fed[j].ts >= fed[3].ts - window
    /\ fed[1].ts <= fed[2].ts /\ fed[2].ts <= fed[3].ts
    /\ result[3] = 2
    /\ Len(buffers[fed[2].key]) = 1
    /\ Len(buffers[fed[3].key]) = 2

----------------------------------------------------------------------------
(* engineer_features(): the loop over the entity columns                   *)
(* (feature_engineering.py 131-180), on frames without a label column.     *)

MaxEntityRows == 3

\* entity_columns = {"ip": "ip", "asn": "asn", "device": "device_id_hash",
\*                   "placement": "placement_id"}
entity_columns ==
    [ip |-> "ip", asn |-> "asn", device |-> "device_id_hash",
     placement |-> "placement_id"]

EntityNames == DOMAIN entity_columns

OptionalColumns == {entity_columns[e] : e \in EntityNames}

\* The keys of ROLLING_WINDOWS as they appear in the column names.
WindowLabel == [w1h |-> "1h", w24h |-> "24h", w7d |-> "7d"]

\* event_time values, in hours: 10 hours and 30 hours before the latest.
EntityTimes == {0, 20, 30}

\* A row: an event_time, an ip that may be missing, an asn, a device hash
\* that is missing, one of two placements.
EntityRows ==
    [event_time : EntityTimes, ip : {"a", KeyNone}, asn : {"n"},
     device_id_hash : {KeyNone}, placement_id : {"p", "q"}]

EntityFrames(len) == UNION {[1..n -> EntityRows] : n \in 0..len}

\* Mutation of fillna_unknown: a missing key is left missing.
fillna_unknown_Kept(value) == value

\* df[column_name].fillna("unknown").astype(str), on one value
fillna_unknown(value) == IF value = KeyNone THEN "unknown" ELSE value

RECURSIVE Gcd(_, _)
Gcd(a, b) == IF b = 0 THEN a ELSE Gcd(b, a % b)

RECURSIVE GcdSeq(_)
GcdSeq(s) == IF s = <<>> THEN 0 ELSE Gcd(Head(s), GcdSeq(Tail(s)))

\* The entropy 0.0.
ZeroEntropy == [probs |-> <<>>]

\* _entropy(values): value_counts() drops the missing values; the entropy
\* -sum(p * log2(p)) is 0.0 when at most one value occurs, and otherwise a
\* function of the probabilities, represented by the sorted value counts in
\* lowest terms.
entropy(values) ==
    LET kept == SelectSeq(values, LAMBDA v : v # KeyNone)
        seen == Range(kept)
        count(v) == Cardinality({i \in 1..Len(kept) : kept[i] = v})
        Counts[S \in SUBSET seen] ==
            IF S = {} THEN <<>>
            ELSE LET v == CHOOSE x \in S : TRUE
                 IN Insert(count(v), Counts[S \ {v}])
        counts == Counts[seen]
        g == GcdSeq(counts)
    IN IF Cardinality(seen) <= 1 THEN ZeroEntropy
       ELSE [probs |-> [i \in 1..Len(counts) |-> counts[i] \div g]]

\* Mutation of GroupOf: the group holds only the rows up to the row itself.
GroupOf_UpToRow(keys, i) == {j \in 1..i : keys[j] = keys[i]}

\* groupby("key", dropna=False): the rows of the frame that have the key of
\* row i.
GroupOf(keys, i) == {j \in 1..Len(keys) : keys[j] = keys[i]}

\* The values of a series at the rows of a group, in frame order.
GroupValues(series, group) ==
    LET F[i \in 0..Len(series)] ==
            IF i = 0 THEN <<>>
            ELSE IF i \in group THEN Append(F[i - 1], series[i]) ELSE F[i - 1]
    IN F[Len(series)]

\* Mutation of EntitiesEmitted: an entity type is emitted whether or not its
\* column is there.
EntitiesEmitted_All(present, include_history) ==
    IF include_history THEN EntityNames ELSE {}

\* for entity_name, column_name in entity_columns.items():
\*     if column_name not in df.columns: continue
\*     ...
\*     if include_history:
EntitiesEmitted(present, include_history) ==
    IF include_history
    THEN {e \in EntityNames : entity_columns[e] \in present}
    ELSE {}

\* The columns the loop adds for one entity type when nothing is labelled.
EntityFeatureNames(e) ==
    {e \o "_rolling_events_" \o WindowLabel[w] : w \in WindowNames}
        \cup {e \o "_entropy", e \o "_burstiness"}

\* The part of engineer_features(df, include_history=...) that loops over
\* entity_columns: the columns it adds to output, each with its values in
\* the order of the rows of df.
entity_features(frame, present, include_history) ==
    LET n == Len(frame)
        times == [i \in 1..n |->
                     IF frame[i].event_time = NaT THEN EPOCH ELSE frame[i].event_time]
        ones == [i \in 1..n |-> 1]
        emitted == EntitiesEmitted(present, include_history)
        column(e) == IF entity_columns[e] \in present
                     THEN [i \in 1..n |-> frame[i][entity_columns[e]]]
                     ELSE [i \in 1..n |-> KeyNone]
        keys(e) == [i \in 1..n |-> fillna_unknown(column(e)[i])]
        placements == [i \in 1..n |-> frame[i].placement_id]
        entropy_column(e) ==
            LET ks == keys(e)
            IN [i \in 1..n |->
                   IF "placement_id" \in present
                   THEN entropy(GroupValues(placements, GroupOf(ks, i)))
                   ELSE ZeroEntropy]
        burstiness_column(e) ==
            LET ks == keys(e)
            IN [i \in 1..n |-> burstiness(GroupValues(times, GroupOf(ks, i)))]
        features ==
            UNION {{[name |-> e \o "_rolling_events_" \o WindowLabel[w],
                     values |-> compute_rolling_counts(times, keys(e),
                                                       ROLLING_WINDOWS[w], ones)]
                        : w \in WindowNames}
                   \cup {[name |-> e \o "_entropy", values |-> entropy_column(e)],
                         [name |-> e \o "_burstiness", values |-> burstiness_column(e)]}
                   : e \in emitted}
    IN [c \in {f.name : f \in features} |->
           (CHOOSE f \in features : f.name = c).values]

\* The frames with every optional column, handed to the batch pass.
EntityInit ==
    /\ EngineIdle
    /\ LabelIdle
    /\ RunIdle
    /\ StreamIdle
    /\ LimiterIdle
    /\ BurstIdle
    /\ CtitIdle
    /\ NightlyIdle
    /\ entity_df \in EntityFrames(MaxEntityRows)
    /\ entity_present = OptionalColumns
    /\ entity_history = TRUE
    /\ entity_output = NoFrame

\* The frames with any of the optional columns, handed to either pass.
AssemblyInit ==
    /\ EngineIdle
    /\ LabelIdle
    /\ RunIdle
    /\ StreamIdle
    /\ LimiterIdle
    /\ BurstIdle
    /\ CtitIdle
    /\ NightlyIdle
    /\ entity_df \in EntityFrames(MaxRows)
    /\ entity_present \in SUBSET OptionalColumns
    /\ entity_history \in BOOLEAN
    /\ entity_output = NoFrame

NotEntity == <<coreVars, burstVars, ctitVars, nightlyVars>>

NotBurst == <<coreVars, entityVars, ctitVars, nightlyVars>>

NotCtit == <<coreVars, entityVars, burstVars, nightlyVars>>

NotNightly == <<coreVars, entityVars, burstVars, ctitVars>>

\* features, metadata = engineer_features(frame, include_history=...)
engineer_features_call ==
    /\ ~entity_output.returned
    /\ entity_output' =
          [returned |-> TRUE,
           columns |-> entity_features(entity_df, entity_present, entity_history)]
    /\ UNCHANGED <<entity_df, entity_present, entity_history>>
    /\ UNCHANGED NotEntity

EntityNext == engineer_features_call

SpecEntity == EntityInit /\ [][EntityNext]_vars

SpecAssembly == AssemblyInit /\ [][EntityNext]_vars

----------------------------------------------------------------------------
(* Claims on the entity columns (SpecEntity, SpecAssembly)                 *)

EntityTimesOf(frame) == [i \in 1..Len(frame) |-> frame[i].event_time]

RollingEventsName(e, w) == e \o "_rolling_events_" \o WindowLabel[w]

\* The rows up to row i whose key for entity type e is missing and whose
\* event_time is not before that of row i minus the window.
MissingInWindow(e, w, i) ==
    {j \in 1..i :
        /\ entity_df[j][entity_columns[e]] = KeyNone
        /\ entity_df[j].event_time >= entity_df[i].event_time - ROLLING_WINDOWS[w]}

\* C21: a row whose key for an entity type is missing is not skipped by the
\* rolling engine: its rolling count for that entity type is at least 1 in
\* every window, and on a frame in time order it is the number of rows with
\* a missing key of that entity type inside the window, so that these rows
\* share the one bucket "unknown" of their entity type.
C21_UnknownBucket ==
    entity_output.returned =>
        \A e \in EntitiesEmitted(entity_present, entity_history) :
            \A i \in 1..Len(entity_df), w \in WindowNames :
                entity_df[i][entity_columns[e]] = KeyNone =>
                    LET count == entity_output.columns[RollingEventsName(e, w)][i]
                    IN /\ count >= 1
                       /\ NonDecreasing(EntityTimesOf(entity_df)) =>
                              count = Cardinality(MissingInWindow(e, w, i))

\* C21 witness: three rows in time order, the first and the third without an
\* ip and none with a device hash; the third row counts two rows in the
\* "unknown" bucket of ip and three in that of device.
C21_Witness ==
    /\ entity_output.returned
    /\ Len(entity_df) = 3
    /\ NonDecreasing(EntityTimesOf(entity_df))
    /\ entity_df[1].ip = KeyNone /\ entity_df[2].ip = "a" /\ entity_df[3].ip = KeyNone
    /\ entity_output.columns["ip_rolling_events_7d"][3] = 2
    /\ entity_output.columns["device_rolling_events_7d"][3] = 3

\* The columns of output that belong to entity type e.
ColumnsOf(e) == DOMAIN entity_output.columns \cap EntityFeatureNames(e)

\* Every column of output has one value per row of df.
OneValuePerRow ==
    \A c \in DOMAIN entity_output.columns :
        Len(entity_output.columns[c]) = Len(entity_df)

\* C22 as stated: whichever of the optional entity columns the input has,
\* feature assembly returns, with no feature of an entity type whose column
\* is missing and with the rolling, entropy and burstiness features of every
\* entity type whose column is there.
C22_GracefulDegradation ==
    entity_output.returned =>
        /\ OneValuePerRow
        /\ \A e \in EntityNames :
              IF entity_columns[e] \in entity_present
              THEN ColumnsOf(e) = EntityFeatureNames(e)
              ELSE ColumnsOf(e) = {}

\* C22, amended: the same, for the features of the entity types that are
\* present, holds of a pass with include_history (the batch pass); a pass
\* without it (streaming) returns as well and emits no entity feature at
\* all.
C22_GracefulDegradationWithHistory ==
    entity_output.returned =>
        /\ OneValuePerRow
        /\ \A e \in EntityNames :
              IF entity_columns[e] \in entity_present /\ entity_history
              THEN ColumnsOf(e) = EntityFeatureNames(e)
              ELSE ColumnsOf(e) = {}

\* C22 witness: a batch pass over two rows of an input with the ip and
\* placement_id columns and without asn and device_id_hash.
C22_Witness ==
    /\ entity_output.returned
    /\ entity_history
    /\ entity_present = {"ip", "placement_id"}
    /\ Len(entity_df) = 2
    /\ DOMAIN entity_output.columns =
          EntityFeatureNames("ip") \cup EntityFeatureNames("placement")
    /\ Len(entity_output.columns["ip_burstiness"]) = 2

\* The key of row i for entity type e, as the loop sees it.
EntityKey(e, i) ==
    IF entity_df[i][entity_columns[e]] = KeyNone
    THEN "unknown"
    ELSE entity_df[i][entity_columns[e]]

\* The rows of the whole frame that have the key of row i, earlier and later
\* ones alike.
SameKeyRows(e, i) == {j \in 1..Len(entity_df) : EntityKey(e, j) = EntityKey(e, i)}

\* C23: in a batch pass any two rows with the same key of an entity type
\* carry the same entropy and the same burstiness, wherever they lie in time;
\* the value of a row is the aggregate over all rows of the frame with its
\* key, the rows later than itself included.
C23_WholeBatchAggregates ==
    entity_output.returned =>
        \A e \in EntitiesEmitted(entity_present, entity_history) :
            LET ent == entity_output.columns[e \o "_entropy"]
                bur == entity_output.columns[e \o "_burstiness"]
            IN \A i \in 1..Len(entity_df) :
                  /\ \A j \in SameKeyRows(e, i) : ent[j] = ent[i] /\ bur[j] = bur[i]
                  /\ ent[i] = entropy(GroupValues([k \in 1..Len(entity_df) |->
                                                      entity_df[k].placement_id],
                                                  SameKeyRows(e, i)))
                  /\ bur[i] = burstiness(GroupValues(EntityTimesOf(entity_df),
                                                     SameKeyRows(e, i)))

\* C23 witness: three rows of ip "a" in time order, at hours 0, 20 and 30;
\* the first row already carries the entropy of the two placements, of which
\* the second is only seen later, and the burstiness of the three events.
C23_Witness ==
    /\ entity_output.returned
    /\ Len(entity_df) = 3
    /\ \A i \in 1..3 : entity_df[i].ip = "a"
    /\ EntityTimesOf(entity_df) = <<0, 20, 30>>
    /\ entity_df[1].placement_id = "p"
    /\ entity_df[2].placement_id = "q"
    /\ entity_df[3].placement_id = "q"
    /\ entity_output.columns["ip_entropy"][1] = [probs |-> <<1, 2>>]
    /\ entity_output.columns["ip_burstiness"][1] = <<10, 20>>
    /\ entity_output.columns["placement_entropy"][1] = ZeroEntropy

\* C28: for every row and every entity type, whatever the order of the rows,
\* the rolling event count is at least 1 in each window, the event just
\* appended never being evicted, and the counts are nested: the count over
\* 1h <= the count over 24h <= the count over 7d.
C28_CountsNested ==
    entity_output.returned =>
        \A e \in EntitiesEmitted(entity_present, entity_history) :
            \A i \in 1..Len(entity_df) :
                LET c1h == entity_output.columns[e \o "_rolling_events_1h"][i]
                    c24h == entity_output.columns[e \o "_rolling_events_24h"][i]
                    c7d == entity_output.columns[e \o "_rolling_events_7d"][i]
                IN /\ c1h >= 1
                   /\ c1h <= c24h
                   /\ c24h <= c7d

\* C28 witness: three rows of ip "a", the earliest presented last; the row at
\* hour 30, presented second, counts 1, 2 and 2 events, and the row at hour
\* 0, presented after it, evicts nothing and counts 2, 3 and 3.
C28_Witness ==
    /\ entity_output.returned
    /\ Len(entity_df) = 3
    /\ \A i \in 1..3 : entity_df[i].ip = "a"
    /\ EntityTimesOf(entity_df) = <<20, 30, 0>>
    /\ entity_output.columns["ip_rolling_events_1h"] = <<1, 1, 2>>
    /\ entity_output.columns["ip_rolling_events_24h"] = <<1, 2, 3>>
    /\ entity_output.columns["ip_rolling_events_7d"] = <<1, 2, 3>>

----------------------------------------------------------------------------
(* _burstiness() on the timestamps of one key                              *)

MaxStamps == 3

\* Timestamps of one key, in hours.
BurstTimes == {0, 1, 3, 26}

BurstInit ==
    /\ EngineIdle
    /\ LabelIdle
    /\ RunIdle
    /\ StreamIdle
    /\ LimiterIdle
    /\ EntityIdle
    /\ CtitIdle
    /\ NightlyIdle
    /\ burst_timestamps \in UNION {[1..n -> BurstTimes] : n \in 0..MaxStamps}
    /\ burst_value = NoFrame

\* _burstiness(list(vals))
burstiness_call ==
    /\ ~burst_value.returned
    /\ burst_value' = [returned |-> TRUE, value |-> burstiness(burst_timestamps)]
    /\ UNCHANGED burst_timestamps
    /\ UNCHANGED NotBurst

BurstNext == burstiness_call

SpecBurst == BurstInit /\ [][BurstNext]_vars

\* The representation of the value 0.0.
ZeroBurstiness == <<>>

\* C24: the burstiness of fewer than 3 timestamps is exactly 0; it is exactly
\* 0 when all timestamps are the same, which is when the mean and the
\* deviation of the gaps are both 0; and every order of presenting the
\* timestamps gives the same value.
C24_BurstinessZeroAndOrderFree ==
    burst_value.returned =>
        LET ts == burst_timestamps
        IN /\ Len(ts) < 3 => burst_value.value = ZeroBurstiness
           /\ (\A i, j \in 1..Len(ts) : ts[i] = ts[j]) =>
                 burst_value.value = ZeroBurstiness
           /\ \A p \in Orderings(Len(ts)) :
                 burstiness([i \in 1..Len(ts) |-> ts[p[i]]]) = burst_value.value

\* C24 witness: three timestamps given out of time order, with gaps of 1 and
\* 25 hours once sorted, and a value that is not 0.
C24_Witness ==
    /\ burst_value.returned
    /\ burst_timestamps = <<26, 0, 1>>
    /\ burst_value.value = <<1, 25>>

----------------------------------------------------------------------------
(* engineer_features(): the CTIT heuristics (feature_engineering.py        *)
(* 191-197) on the ctit_seconds column                                     *)

\* ctit_seconds values: missing, or whole seconds on either side of the two
\* thresholds.
CtitValues == {NaN, 0, 5, 6, 86399, 86400}

\* Mutation of safe_column: missing values are left in the column.
safe_column_NoFill(present, values, default) ==
    IF present THEN values ELSE [i \in 1..Len(values) |-> default]

\* _safe_column(df, name, default): df[name].fillna(default) when df has the
\* column, and a column of the default otherwise.
safe_column(present, values, default) ==
    IF present
    THEN [i \in 1..Len(values) |-> IF values[i] = NaN THEN default ELSE values[i]]
    ELSE [i \in 1..Len(values) |-> default]

\* (series <= bound).astype(np.float32) and (series >= bound).astype(...),
\* on one value; a comparison with a missing value is False.
AtMost(value, bound) == IF value # NaN /\ value <= bound THEN 1 ELSE 0

AtLeast(value, bound) == IF value # NaN /\ value >= bound THEN 1 ELSE 0

\* if "ctit_seconds" in df.columns: the four columns added to output.
ctit_features(present, values) ==
    IF ~present THEN <<>>
    ELSE LET ctit == safe_column(present, values, 0)
             n == Len(ctit)
         IN [ctit_seconds |-> ctit,
             ctit_log_seconds |-> [i \in 1..n |-> [log1p |-> ctit[i]]],
             ctit_is_ultrashort |-> [i \in 1..n |-> AtMost(ctit[i], 5)],
             ctit_is_ultralong |-> [i \in 1..n |-> AtLeast(ctit[i], 86400)]]

CtitInit ==
    /\ EngineIdle
    /\ LabelIdle
    /\ RunIdle
    /\ StreamIdle
    /\ LimiterIdle
    /\ EntityIdle
    /\ BurstIdle
    /\ NightlyIdle
    /\ ctit_df \in [present : BOOLEAN,
                    values : UNION {[1..n -> CtitValues] : n \in 0..MaxRows}]
    /\ ctit_output = NoFrame

\* engineer_features(df): the CTIT block
ctit_call ==
    /\ ~ctit_output.returned
    /\ ctit_output' = [returned |-> TRUE,
                       columns |-> ctit_features(ctit_df.present, ctit_df.values)]
    /\ UNCHANGED ctit_df
    /\ UNCHANGED NotCtit

CtitNext == ctit_call

SpecCtit == CtitInit /\ [][CtitNext]_vars

\* The click-to-install time of row i, a missing value taken as 0.
CtitOf(i) == IF ctit_df.values[i] = NaN THEN 0 ELSE ctit_df.values[i]

\* C25: for every row of an input with a ctit_seconds column, a missing
\* value taken as 0, ctit_is_ultrashort is 1 exactly when the time is <= 5
\* seconds and 0 otherwise, ctit_is_ultralong is 1 exactly when it is
\* >= 86400 seconds and 0 otherwise, and the two are never both 1.
C25_CtitFlags ==
    (ctit_output.returned /\ ctit_df.present) =>
        LET short == ctit_output.columns.ctit_is_ultrashort
            long == ctit_output.columns.ctit_is_ultralong
        IN /\ Len(short) = Len(ctit_df.values)
           /\ Len(long) = Len(ctit_df.values)
           /\ \A i \in 1..Len(ctit_df.values) :
                 /\ short[i] = (IF CtitOf(i) <= 5 THEN 1 ELSE 0)
                 /\ long[i] = (IF CtitOf(i) >= 86400 THEN 1 ELSE 0)
                 /\ ~(short[i] = 1 /\ long[i] = 1)

\* C25 witness: a row without a value, flagged ultra-short, next to a row of
\* exactly one day, flagged ultra-long.
C25_Witness ==
    /\ ctit_output.returned
    /\ ctit_df = [present |-> TRUE, values |-> <<NaN, 86400>>]
    /\ ctit_output.columns.ctit_is_ultrashort = <<1, 0>>
    /\ ctit_output.columns.ctit_is_ultralong = <<0, 1>>

----------------------------------------------------------------------------
(* lib/loader.py: the chunk size the iterators choose for themselves       *)

\* What os.getenv("CHUNK_ROWS") can hold: nothing, or the decimal numeral of
\* an integer.
NoEnv == [set |-> FALSE]

ChunkRowsEnv == {NoEnv} \cup {[set |-> TRUE, value |-> n] : n \in {0, 1, 2, 20000}}

IntMax(a, b) == IF a >= b THEN a ELSE b

IntMin(a, b) == IF a <= b THEN a ELSE b

\* _env_int(key, dflt): the default when the variable is unset or <= 0
env_int(env, dflt) == IF env.set /\ env.value > 0 THEN env.value ELSE dflt

\* _default_chunk_rows()
default_chunk_rows(env) == env_int(env, 100000)

\* _max_ram_fraction() with ML_MAX_RAM_FRACTION unset: 0.5
max_ram_fraction == [num |-> 1, den |-> 2]

\* _estimate_rows_for_budget(file_path, default_rows):
\*   int(max(10_000, min(default_rows, approx_rows_total * frac * 0.05)))
estimate_rows_for_budget(size, default_rows) ==
    LET approx_rows_total == IntMax(1, size \div 100)
        frac == max_ram_fraction
    IN IntMax(10000,
              IntMin(default_rows, (approx_rows_total * frac.num) \div (frac.den * 20)))

\* The chunk size each iterator settles on: opts.chunksize or the estimate
\* (iter_csv), chunk_rows or the estimate (iter_jsonl), batch_size or 64000
\* (iter_parquet).  An explicit size of 0 stands for None.
ChosenChunkSize(format, explicit, env, size) ==
    IF explicit # 0 THEN explicit
    ELSE IF format = "parquet" THEN 64000
    ELSE estimate_rows_for_budget(size, default_chunk_rows(env))

\* st_size of a file of n lines of about 100 bytes.
FileSize(n) == 100 * n

\* A loader called with or without an explicit chunk size, under any setting
\* of CHUNK_ROWS.
ChunkRowsInit ==
    /\ EngineIdle
    /\ LabelIdle
    /\ RunIdle
    /\ LimiterIdle
    /\ ExtIdle
    /\ \E format \in Formats, explicit \in {0, 1}, env \in ChunkRowsEnv,
          workers \in 1..MaxWorkers :
          /\ file \in Files(format)
          /\ loader = [format |-> format,
                       explicit |-> explicit,
                       CHUNK_ROWS |-> env,
                       chunksize |-> ChosenChunkSize(format, explicit, env,
                                                     FileSize(Len(file))),
                       max_workers |-> workers]
    /\ pos = 0
    /\ jsonl_rows = <<>>
    /\ futures = <<>>
    /\ par_out = NoFrame

SpecChunkRows == ChunkRowsInit /\ [][StreamNext]_vars

\* C26: when CHUNK_ROWS is set to a positive integer n, every chunk yielded
\* by iter_csv and iter_jsonl called without an explicit chunk size has at
\* most n rows.
C26_ChunkRowsCapsChunks ==
    (/\ loader.format \in {"csv", "jsonl"}
     /\ loader.explicit = 0
     /\ loader.CHUNK_ROWS.set
     /\ loader.CHUNK_ROWS.value > 0) =>
        \A i \in 1..Len(futures) : Len(futures[i].chunk) <= loader.CHUNK_ROWS.value

----------------------------------------------------------------------------
(* nightly_pipeline.py: run_pipeline(), one run after another              *)

\* The names of the steps of _build_steps, in order.
StepNames ==
    <<"feature_engineering", "train_supervised_logreg", "evaluate_model",
      "package_model", "monitor_shadow_scores">>

\* The steps with a "skip_if_missing" guard.
GuardedSteps == {"monitor_shadow_scores"}

\* The training and evaluation steps.
TrainingSteps == {"train_supervised_logreg", "evaluate_model"}

\* No fingerprint: the file is absent, or _compute_fingerprint returned None.
NoFingerprint == 0

Fingerprints == {1, 2}

\* --steps: absent (the full pipeline), a step before training, the two
\* training steps, a name that is no step.
Selections ==
    {<<>>, <<"feature_engineering">>,
     <<"train_supervised_logreg", "evaluate_model">>, <<"no_such_step">>}

NightlyArgs ==
    [steps : Selections, skip_if_unchanged : BOOLEAN, max_runtime_minutes : {0, 1}]

\* steps = [lookup[name] for name in selected if name in lookup], or all the
\* steps when nothing is selected.
SelectedSteps(selected) ==
    IF selected = <<>> THEN StepNames
    ELSE SelectSeq(selected, LAMBDA name : name \in Range(StepNames))

NoRun == [pc |-> "idle", outcome |-> "none"]

NightlyInit ==
    /\ EngineIdle
    /\ LabelIdle
    /\ RunIdle
    /\ StreamIdle
    /\ LimiterIdle
    /\ EntityIdle
    /\ BurstIdle
    /\ CtitIdle
    /\ fingerprint_file = NoFingerprint
    /\ dataset \in Fingerprints \cup {NoFingerprint}
    /\ nightly = NoRun
    /\ completed = [d \in Fingerprints \cup {NoFingerprint} |-> {}]
    /\ flagged = TRUE

\* Between two runs the dataset under --fingerprint-source is replaced.
dataset_changes ==
    /\ nightly.pc = "idle"
    /\ dataset' \in (Fingerprints \cup {NoFingerprint}) \ {dataset}
    /\ UNCHANGED <<fingerprint_file, nightly, completed, flagged>>
    /\ UNCHANGED NotNightly

\* fingerprint is not None and fingerprint_file.exists()
\*     and previous == fingerprint
Unchanged(fingerprint, stored) ==
    /\ fingerprint # NoFingerprint
    /\ stored # NoFingerprint
    /\ stored = fingerprint

\* run_pipeline(...) up to the loop over the steps: select the steps, compute
\* the fingerprint, return at once when it is the stored one.
run_pipeline_start ==
    /\ nightly.pc = "idle"
    /\ \E a \in NightlyArgs :
          LET steps == SelectedSteps(a.steps)
              fingerprint == IF a.skip_if_unchanged THEN dataset ELSE NoFingerprint
              begun == [pc |-> "idle", args |-> a, steps |-> steps,
                        fingerprint |-> fingerprint, source |-> dataset,
                        stored_at_start |-> fingerprint_file, outcome |-> "none"]
          IN /\ flagged' = (flagged /\ a.skip_if_unchanged)
             /\ IF steps = <<>>
                THEN \* raise SystemExit("No valid steps selected")
                     nightly' = [begun EXCEPT !.fingerprint = NoFingerprint,
                                              !.outcome = "no_valid_steps"]
                ELSE IF a.skip_if_unchanged /\ Unchanged(fingerprint, fingerprint_file)
                THEN nightly' = [begun EXCEPT !.outcome = "skipped"]
                ELSE nightly' = [begun EXCEPT !.pc = "steps"]
    /\ UNCHANGED <<fingerprint_file, dataset, completed>>
    /\ UNCHANGED NotNightly

\* The training steps that have succeeded on the dataset of this run, after
\* step name has.
Completed(name) ==
    IF name \in TrainingSteps
    THEN [completed EXCEPT ![nightly.source] = @ \cup {name}]
    ELSE completed

\* _run_step(step, time_budget_seconds=...): the guard file is missing, the
\* command fails, the command succeeds in time, or succeeds too late.
run_step ==
    /\ nightly.pc = "steps"
    /\ nightly.steps # <<>>
    /\ LET name == Head(nightly.steps)
       IN \/ /\ name \in GuardedSteps
             /\ nightly' = [nightly EXCEPT !.steps = Tail(@)]
             /\ UNCHANGED completed
          \/ /\ nightly' = [nightly EXCEPT !.pc = "idle", !.outcome = "step_failed"]
             /\ UNCHANGED completed
          \/ /\ nightly' = [nightly EXCEPT !.steps = Tail(@)]
             /\ completed' = Completed(name)
          \/ /\ nightly.args.max_runtime_minutes # 0
             /\ nightly' = [nightly EXCEPT !.pc = "idle", !.outcome = "step_failed"]
             /\ completed' = Completed(name)
    /\ UNCHANGED <<fingerprint_file, dataset, flagged>>
    /\ UNCHANGED NotNightly

\* run_pipeline(...) after the loop: the fingerprint is stored.
run_pipeline_end ==
    /\ nightly.pc = "steps"
    /\ nightly.steps = <<>>
    /\ nightly' = [nightly EXCEPT !.pc = "idle", !.outcome = "done"]
    /\ IF nightly.args.skip_if_unchanged /\ nightly.fingerprint # NoFingerprint
       THEN fingerprint_file' = nightly.fingerprint
       ELSE UNCHANGED fingerprint_file
    /\ UNCHANGED <<dataset, completed, flagged>>
    /\ UNCHANGED NotNightly

NightlyNext ==
    \/ dataset_changes
    \/ run_pipeline_start
    \/ run_step
    \/ run_pipeline_end

SpecNightly == NightlyInit /\ [][NightlyNext]_vars

----------------------------------------------------------------------------
(* Claims on the sample size of a streaming run (Spec)                     *)

\* C30, state part: in a streaming run with --sample-size S > 0 the rows
\* written never number more than S and total_rows counts them; when the
\* run has ended their number is min(S, rows of the input) and the "rows"
\* of the manifest is that number.
C30_SampleBound ==
    (args.stream /\ args.sample_size > 0) =>
        /\ Len(written) <= args.sample_size
        /\ total_rows = Len(written)
        /\ pc = "done" =>
              /\ Len(written) = IntMin(args.sample_size, Len(input))
              /\ metadata.rows = Len(written)

\* C30, step part: once S rows are written no chunk is handed to
\* engineer_features and nothing more is written.
C30_NoChunkAfterSample ==
    (args.stream /\ args.sample_size > 0 /\ total_rows >= args.sample_size) =>
        UNCHANGED <<df, feats, meta, written, total_rows>>

\* C30: in streaming mode with a sample size S > 0 rows are taken chunk by
\* chunk until S rows are written: the rows written never exceed S, no chunk
\* is processed once S rows are written, and after the run the number of
\* rows written is min(S, rows of the input) and equals metadata.rows.
C30_StreamSampleCap == [](C30_SampleBound) /\ [][C30_NoChunkAfterSample]_vars

\* C30 witness: a finished streaming run with S = 2 that filled its sample
\* from two chunks of one row each.
C30_Witness ==
    /\ pc = "done"
    /\ args.stream
    /\ args.sample_size = 2
    /\ Len(input) = 2
    /\ Len(df) = 1
    /\ Len(written) = 2
    /\ metadata.rows = 2

====
